---- MODULE Spec2Model ----
(***************************************************************************)
(* LifeSure server (src/index.js, with the earlier revision                *)
(* src/unnamed/part_000): the express route table, the identity verifier,  *)
(* the three role guards and the resource handlers, over the document      *)
(* store's collections.  Every await on the store is one atomic step;      *)
(* requests in flight interleave between those steps.                      *)
(***************************************************************************)
EXTENDS Integers, Sequences, FiniteSets, TLC

\* ------------------------------------------------------------- bounds
\* Requests accepted during one behaviour.
MaxReqs == 3
\* The listing is checked on collections of up to MaxPolicies policies, for
\* pages up to MaxPage and limits up to MaxLimit.
MaxPolicies == 15
MaxPage == 3
MaxLimit == 10

\* Requests the runtime has in flight at once (one slot each).
Slots == {1, 2}

\* Subject ids the identity provider issues; "u4" has no User record at start.
Uids == {"u1", "u2", "u3", "u4"}

\* Strings that new ObjectId(...) accepts: policy ids and application ids.
Pids == {"p1", "p2"}
Aids == {"a1", "a2", "a3", "a4", "a5"}
Bids == {"b1", "b2", "b3", "b4", "b5"}
Hex == Pids \cup Aids \cup Bids

\* ------------------------------------------------------- JS values
\* A JS string and an ObjectId with the same text are different values:
\* the store's equality match is type-sensitive.
Str(s) == [t |-> "string", v |-> s]
ObjectId(s) == [t |-> "ObjectId", v |-> s]

\* new ObjectId(s) throws on anything that is not a 24-hex string.
ObjectIdThrows(s) == s \notin Hex

validRoles == {"admin", "agent", "customer"}
validStatuses == {"pending", "approved", "rejected", "processing"}

\* ------------------------------------------------------- collections
VARIABLES users, policies, applications, reviews, payments, claims, blogs, req, nreq

db == <<users, policies, applications, reviews, payments, claims, blogs>>
vars == <<users, policies, applications, reviews, payments, claims, blogs, req, nreq>>

\* A user record; agentApplicationStatus "" stands for a record without
\* that field.
NullUser == [uid |-> "", email |-> "", displayName |-> "", photoURL |-> "",
             role |-> "", provider |-> "", agentApplicationStatus |-> ""]

\* Index of the first document among the matching ones, 0 when none matches
\* (findOne, and the document updateOne / deleteOne act on).
FirstIdx(matching) ==
  IF matching = {} THEN 0 ELSE CHOOSE i \in matching : \A j \in matching : i <= j

RemoveAt(coll, i) == SubSeq(coll, 1, i - 1) \o SubSeq(coll, i + 1, Len(coll))

\* usersCollection.findOne({ uid })
findUser(us, uid) ==
  LET i == FirstIdx({k \in 1..Len(us) : us[k].uid = uid})
  IN IF i = 0 THEN NullUser ELSE us[i]

\* policiesCollection.findOne({ _id })
findPolicyIdx(ps, oid) == FirstIdx({k \in 1..Len(ps) : ps[k]._id = oid})

\* ------------------------------------------------------- requests
Idle == [ep |-> ""]

\* A header or body nothing has read yet.  Nothing observes a request's
\* header before the identity verifier reads it, or its body and URL
\* parameters before the handler does, so each is drawn where it is read.
Unread == [unread |-> TRUE]

NoHeader == [scheme |-> "", token |-> ""]
\* Authorization headers: absent, a non-Bearer scheme, a Bearer token the
\* identity provider rejects, and a valid token of each subject id.
Headers ==
  {NoHeader, [scheme |-> "Basic", token |-> "u3"], [scheme |-> "Bearer", token |-> "bad"]}
    \cup {[scheme |-> "Bearer", token |-> u] : u \in Uids}

\* The route table with the token-only registration of POST /confirm-payment
\* registered first.
Routes_TokenOnlyFirst(ep) ==
  CASE ep = "PATCH /admin/users/:targetUserId/role" ->
         << <<"verifyFirebaseToken", "verifyAdmin", "patchUserRole">> >>
    [] ep = "PATCH /agent/applications/:id/status" ->
         << <<"verifyFirebaseToken", "verifyAgent", "patchAgentApplicationStatus">> >>
    [] ep = "POST /confirm-payment" ->
         << <<"verifyFirebaseToken", "confirmPaymentTokenOnly">>,
            <<"verifyFirebaseToken", "verifyCustomer", "confirmPayment">> >>
    [] ep = "POST /customer/applications" ->
         << <<"verifyFirebaseToken", "submitApplication">> >>
    [] ep = "POST /reviews" ->
         << <<"verifyFirebaseToken", "postReviews">> >>
    [] ep = "DELETE /policies/:id" ->
         << <<"verifyFirebaseToken", "verifyAdmin", "deletePolicy">> >>
    [] ep = "POST /users" -> << <<"postUsers">> >>
    [] ep = "POST /applications" -> << <<"postApplications">> >>
    [] ep = "POST /reviews (part_000)" -> << <<"postReviews">> >>
    [] ep = "POST /policies" ->
         << <<"verifyFirebaseToken", "verifyAdmin", "postPolicies">> >>
    [] ep = "POST /admin/policies" ->
         << <<"verifyFirebaseToken", "verifyAdmin", "postAdminPolicies">> >>
    [] ep = "DELETE /admin/policies/:id" ->
         << <<"verifyFirebaseToken", "verifyAdmin", "deleteAdminPolicy">> >>
    [] ep = "DELETE /admin/users/:userId" ->
         << <<"verifyFirebaseToken", "verifyAdmin", "deleteUser">> >>
    [] ep = "POST /apply-agent" ->
         << <<"verifyFirebaseToken", "verifyCustomer", "applyAgent">> >>
    [] ep = "PATCH /admin/agent-applications/:userId" ->
         << <<"verifyFirebaseToken", "verifyAdmin", "patchAgentApplication">> >>
    [] ep = "PATCH /profile" ->
         << <<"verifyFirebaseToken", "patchProfile">> >>
    [] ep = "GET /policies" -> << <<"getPolicies">> >>
    [] ep = "POST /agent/blogs" ->
         << <<"verifyFirebaseToken", "verifyAgent", "postBlog">> >>
    [] ep = "PUT /agent/blogs/:id" ->
         << <<"verifyFirebaseToken", "verifyAgent", "putBlog">> >>
    [] ep = "DELETE /agent/blogs/:id" ->
         << <<"verifyFirebaseToken", "verifyAgent", "deleteBlog">> >>
    [] ep = "GET /payments/user/:userId" ->
         << <<"verifyFirebaseToken", "getUserPayments">> >>
    [] ep = "POST /create-payment-intent" ->
         << <<"verifyFirebaseToken", "verifyCustomer", "createPaymentIntent">> >>
    [] ep = "PATCH /users/:uid/profile" ->
         << <<"verifyFirebaseToken", "patchUsersProfile">> >>
    [] ep = "PATCH /users/:uid/last-login" ->
         << <<"patchLastLogin">> >>
    [] ep = "POST /customer/claims" ->
         << <<"verifyFirebaseToken", "verifyCustomer", "postClaims">> >>
    [] ep = "PATCH /applications/:id/status" ->
         << <<"verifyFirebaseToken", "verifyAdmin", "patchApplicationStatus">> >>
    [] OTHER -> << >>

\* The middleware stacks, in registration order (app.<method>(path, ...)).
Routes(ep) ==
  CASE ep = "PATCH /admin/users/:targetUserId/role" ->
         << <<"verifyFirebaseToken", "verifyAdmin", "patchUserRole">> >>
    [] ep = "PATCH /agent/applications/:id/status" ->
         << <<"verifyFirebaseToken", "verifyAgent", "patchAgentApplicationStatus">> >>
    [] ep = "POST /confirm-payment" ->
         << <<"verifyFirebaseToken", "verifyCustomer", "confirmPayment">>,
            <<"verifyFirebaseToken", "confirmPaymentTokenOnly">> >>
    [] ep = "POST /customer/applications" ->
         << <<"verifyFirebaseToken", "submitApplication">> >>
    [] ep = "POST /reviews" ->
         << <<"verifyFirebaseToken", "postReviews">> >>
    [] ep = "DELETE /policies/:id" ->
         << <<"verifyFirebaseToken", "verifyAdmin", "deletePolicy">> >>
    [] ep = "POST /users" -> << <<"postUsers">> >>
    [] ep = "POST /applications" -> << <<"postApplications">> >>
    [] ep = "POST /reviews (part_000)" -> << <<"postReviews">> >>
    [] ep = "POST /policies" ->
         << <<"verifyFirebaseToken", "verifyAdmin", "postPolicies">> >>
    [] ep = "POST /admin/policies" ->
         << <<"verifyFirebaseToken", "verifyAdmin", "postAdminPolicies">> >>
    [] ep = "DELETE /admin/policies/:id" ->
         << <<"verifyFirebaseToken", "verifyAdmin", "deleteAdminPolicy">> >>
    [] ep = "DELETE /admin/users/:userId" ->
         << <<"verifyFirebaseToken", "verifyAdmin", "deleteUser">> >>
    [] ep = "POST /apply-agent" ->
         << <<"verifyFirebaseToken", "verifyCustomer", "applyAgent">> >>
    [] ep = "PATCH /admin/agent-applications/:userId" ->
         << <<"verifyFirebaseToken", "verifyAdmin", "patchAgentApplication">> >>
    [] ep = "PATCH /profile" ->
         << <<"verifyFirebaseToken", "patchProfile">> >>
    [] ep = "GET /policies" -> << <<"getPolicies">> >>
    [] ep = "POST /agent/blogs" ->
         << <<"verifyFirebaseToken", "verifyAgent", "postBlog">> >>
    [] ep = "PUT /agent/blogs/:id" ->
         << <<"verifyFirebaseToken", "verifyAgent", "putBlog">> >>
    [] ep = "DELETE /agent/blogs/:id" ->
         << <<"verifyFirebaseToken", "verifyAgent", "deleteBlog">> >>
    [] ep = "GET /payments/user/:userId" ->
         << <<"verifyFirebaseToken", "getUserPayments">> >>
    [] ep = "POST /create-payment-intent" ->
         << <<"verifyFirebaseToken", "verifyCustomer", "createPaymentIntent">> >>
    [] ep = "PATCH /users/:uid/profile" ->
         << <<"verifyFirebaseToken", "patchUsersProfile">> >>
    [] ep = "PATCH /users/:uid/last-login" ->
         << <<"patchLastLogin">> >>
    [] ep = "POST /customer/claims" ->
         << <<"verifyFirebaseToken", "verifyCustomer", "postClaims">> >>
    [] ep = "PATCH /applications/:id/status" ->
         << <<"verifyFirebaseToken", "verifyAdmin", "patchApplicationStatus">> >>
    [] OTHER -> << >>

NewRequest(ep) ==
  [ep |-> ep, hdr |-> Unread, body |-> Unread, reg |-> 1, stage |-> 1,
   hpc |-> "", decoded |-> "", user |-> NullUser, loc |-> Unread, resp |-> 0,
   by |-> "", ran |-> << >>, wrote |-> FALSE]

Active(r) == r.ep # "" /\ r.resp = 0
StageOf(r) == Routes(r.ep)[r.reg][r.stage]
AtStage(r, name) == Active(r) /\ StageOf(r) = name

\* res.status(code).json(...) by the stage that is running.  What stays of
\* the request is its outcome: the body is dropped with it.
Respond(r, code) ==
  [r EXCEPT !.resp = code, !.by = StageOf(r), !.body = Unread]

\* next(): the following middleware of the stack, then the next registration
\* of the same method and path, then express's own 404.
CallNext(r) ==
  IF r.stage < Len(Routes(r.ep)[r.reg])
  THEN [r EXCEPT !.stage = r.stage + 1]
  ELSE IF r.reg < Len(Routes(r.ep))
       THEN [r EXCEPT !.reg = r.reg + 1, !.stage = 1]
       ELSE [r EXCEPT !.resp = 404, !.by = "express", !.body = Unread]

\* A stage starts running: recorded in the request's trace.
Enter(r) == [r EXCEPT !.ran = Append(r.ran, StageOf(r))]

\* ------------------------------------------------ identity verifier
\* admin.auth().verifyIdToken(token): the provider accepts exactly the
\* tokens it issued, and returns the subject id.
verifyIdTokenFails(token) == token \notin Uids

\* A verifier that lets the request through after a failed verification.
verifyFirebaseToken_NextOnFailure(r0) ==
  LET r == Enter(r0)
  IN IF r.hdr.scheme # "Bearer"
     THEN Respond(r, 401)
     ELSE CallNext([r EXCEPT !.decoded =
                      IF verifyIdTokenFails(r.hdr.token) THEN "" ELSE r.hdr.token])

verifyFirebaseToken(r0) ==
  LET r == Enter(r0)
  IN IF r.hdr.scheme # "Bearer"
     THEN Respond(r, 401)
     ELSE IF verifyIdTokenFails(r.hdr.token)
          THEN Respond(r, 403)
          ELSE CallNext([r EXCEPT !.decoded = r.hdr.token])

\* The role each subject had when the server started.
StartRole(uid) ==
  CASE uid = "u1" -> "admin"
    [] uid = "u2" -> "agent"
    [] uid = "u3" -> "customer"
    [] OTHER -> ""

\* A guard that decides by the role it saw first and kept, instead of the
\* stored one.
RoleGuard_CachedRole(r0, us, role) ==
  LET r == Enter(r0)
      user == findUser(us, r.decoded)
  IN IF r.decoded = ""
     THEN Respond(r, 401)
     ELSE IF user = NullUser
          THEN Respond(r, 404)
          ELSE IF StartRole(user.uid) # role
               THEN Respond(r, 403)
               ELSE CallNext([r EXCEPT !.user = user])

\* ------------------------------------------------------ role guards
\* A guard that forgets the role comparison.
RoleGuard_NoRoleCheck(r0, us, role) ==
  LET r == Enter(r0)
      user == findUser(us, r.decoded)
  IN IF r.decoded = ""
     THEN Respond(r, 401)
     ELSE IF user = NullUser
          THEN Respond(r, 404)
          ELSE CallNext([r EXCEPT !.user = user])

\* A guard that answers a missing User record as a role mismatch.
RoleGuard_NotFoundAs403(r0, us, role) ==
  LET r == Enter(r0)
      user == findUser(us, r.decoded)
  IN IF r.decoded = ""
     THEN Respond(r, 401)
     ELSE IF user = NullUser \/ user.role # role
          THEN Respond(r, 403)
          ELSE CallNext([r EXCEPT !.user = user])

RoleGuard(r0, us, role) ==
  LET r == Enter(r0)
      user == findUser(us, r.decoded)
  IN IF r.decoded = ""
     THEN Respond(r, 401)
     ELSE IF user = NullUser
          THEN Respond(r, 404)
          ELSE IF user.role # role
               THEN Respond(r, 403)
               ELSE CallNext([r EXCEPT !.user = user])

verifyAdmin(r, us) == RoleGuard(r, us, "admin")
verifyAgent(r, us) == RoleGuard(r, us, "agent")
verifyCustomer(r, us) == RoleGuard(r, us, "customer")

\* ------------------------------------------------- resource handlers
\* PATCH /admin/users/:targetUserId/role storing the body's Role unvalidated.
patchUserRole_NoValidation(r0, us) ==
  LET r == Enter(r0)
      i == FirstIdx({k \in 1..Len(us) : us[k].uid = r.body.targetUserId})
  IN IF i = 0
     THEN [r |-> Respond(r, 404), users |-> us]
     ELSE [r |-> Respond([r EXCEPT !.wrote = TRUE], 200),
           users |-> [us EXCEPT ![i].role = r.body.Role]]

\* PATCH /admin/users/:targetUserId/role
patchUserRole(r0, us) ==
  LET r == Enter(r0)
      i == FirstIdx({k \in 1..Len(us) : us[k].uid = r.body.targetUserId})
  IN IF r.body.Role \notin validRoles
     THEN [r |-> Respond(r, 400), users |-> us]
     ELSE IF i = 0
          THEN [r |-> Respond(r, 404), users |-> us]
          ELSE [r |-> Respond([r EXCEPT !.wrote = TRUE], 200),
                users |-> [us EXCEPT ![i].role = r.body.Role]]

\* PATCH /agent/applications/:id/status
patchAgentApplicationStatus(r0, apps) ==
  LET r == Enter(r0)
      i == FirstIdx({k \in 1..Len(apps) : apps[k]._id = ObjectId(r.body.id)})
  IN IF r.body.status \notin validStatuses
     THEN [r |-> Respond(r, 400), applications |-> apps]
     ELSE IF ObjectIdThrows(r.body.id)
          THEN [r |-> Respond(r, 500), applications |-> apps]
          ELSE IF i = 0
               THEN [r |-> Respond(r, 404), applications |-> apps]
               ELSE [r |-> Respond([r EXCEPT !.wrote = TRUE], 200),
                     applications |->
                       [apps EXCEPT ![i].status = r.body.status,
                                    ![i].updatedBy = r.user.uid]]

\* The Payment record both registrations of POST /confirm-payment build;
\* only the second one stamps a currency.
PaymentRecord(r, currency) ==
  [paymentIntentId |-> r.body.paymentIntentId, userId |-> r.decoded,
   policyId |-> ObjectId(r.body.policyId), amount |-> r.body.amount,
   currency |-> currency, status |-> "completed"]

\* POST /confirm-payment keyed by paymentIntentId: a second confirmation of
\* the same intent overwrites the stored record.
ConfirmPaymentWith_Upsert(r0, pays, currency) ==
  LET r == Enter(r0)
      i == FirstIdx({k \in 1..Len(pays) :
                       pays[k].paymentIntentId = r.body.paymentIntentId})
  IN IF r.body.paymentIntentId = "" \/ r.body.policyId = "" \/ r.body.amount = 0
     THEN [r |-> Respond(r, 400), payments |-> pays]
     ELSE IF ObjectIdThrows(r.body.policyId)
          THEN [r |-> Respond(r, 500), payments |-> pays]
          ELSE [r |-> Respond([r EXCEPT !.wrote = TRUE], 200),
                payments |-> IF i = 0
                             THEN Append(pays, PaymentRecord(r, currency))
                             ELSE [pays EXCEPT ![i] = PaymentRecord(r, currency)]]

ConfirmPaymentWith(r0, pays, currency) ==
  LET r == Enter(r0)
  IN IF r.body.paymentIntentId = "" \/ r.body.policyId = "" \/ r.body.amount = 0
     THEN [r |-> Respond(r, 400), payments |-> pays]
     ELSE IF ObjectIdThrows(r.body.policyId)
          THEN [r |-> Respond(r, 500), payments |-> pays]
          ELSE [r |-> Respond([r EXCEPT !.wrote = TRUE], 200),
                payments |-> Append(pays, PaymentRecord(r, currency))]

\* POST /confirm-payment, first registration (token check and customer guard)
confirmPayment(r, pays) == ConfirmPaymentWith(r, pays, "")

\* POST /confirm-payment, second registration (token check only)
confirmPaymentTokenOnly(r, pays) == ConfirmPaymentWith(r, pays, "usd")

\* email.split('@')[0]
LocalPart(email) ==
  CASE email = "e1@x" -> "e1"
    [] email = "e2@x" -> "e2"
    [] OTHER -> email

\* POST /users whose update also takes a role from the request body.
postUsersUpdate_RoleFromBody(r, us) ==
  LET i == FirstIdx({k \in 1..Len(us) : us[k].uid = r.body.uid})
  IN [r |-> [r EXCEPT !.hpc = "reread", !.wrote = TRUE],
      users |-> IF i = 0 THEN us
                ELSE [us EXCEPT ![i].email = r.body.email,
                                ![i].displayName = r.body.displayName,
                                ![i].photoURL = r.body.photoURL,
                                ![i].role = r.body.role]]

\* POST /users: validation and the lookup of the existing record.
postUsersLookup(r0, us) ==
  LET r == Enter(r0)
  IN IF r.body.uid = "" \/ r.body.email = ""
     THEN Respond(r, 400)
     ELSE [r EXCEPT !.hpc = IF findUser(us, r.body.uid) # NullUser
                            THEN "update" ELSE "insert",
                    !.loc = [uid |-> r.body.uid]]

\* POST /users, existing record: updateOne({ uid }, { $set: updateData }).
\* An absent displayName or photoURL is stored as null ("").
postUsersUpdate(r, us) ==
  LET i == FirstIdx({k \in 1..Len(us) : us[k].uid = r.body.uid})
  IN [r |-> [r EXCEPT !.hpc = "reread", !.wrote = TRUE],
      users |-> IF i = 0 THEN us
                ELSE [us EXCEPT ![i].email = r.body.email,
                                ![i].displayName = r.body.displayName,
                                ![i].photoURL = r.body.photoURL]]

\* POST /users, existing record: the record is read back and returned.
postUsersReread(r, us) == Respond(r, 200)

\* POST /users, no record: insertOne(newUser) with the customer role.
newUser(body) ==
  [uid |-> body.uid, email |-> body.email,
   displayName |-> IF body.displayName = "" THEN LocalPart(body.email)
                   ELSE body.displayName,
   photoURL |-> body.photoURL, role |-> "customer",
   provider |-> IF body.provider = "" THEN "email" ELSE body.provider,
   agentApplicationStatus |-> ""]

postUsersInsert(r, us) ==
  [r |-> Respond([r EXCEPT !.wrote = TRUE], 201),
   users |-> Append(us, newUser(r.body))]

\* POST /reviews: validation and the duplicate check.  The query carries
\* the body's policyId as the string it arrived as.
postReviewsLookup(r0, rvs) ==
  LET r == Enter(r0)
      b == r.body
  IN IF b.rating = 0 \/ b.feedback = "" \/ b.policyId = "" \/ b.userId = ""
     THEN Respond(r, 400)
     ELSE IF b.rating < 1 \/ b.rating > 5
          THEN Respond(r, 400)
          ELSE IF \E k \in 1..Len(rvs) :
                    rvs[k].userId = b.userId /\ rvs[k].policyId = Str(b.policyId)
               THEN Respond(r, 400)
               ELSE [r EXCEPT !.hpc = "insert",
                              !.loc = [userId |-> b.userId, policyId |-> b.policyId]]

\* newReview: the stored policyId is an ObjectId; parseInt of an integer
\* rating is that integer.
newReview(body) ==
  [userId |-> body.userId, policyId |-> ObjectId(body.policyId),
   rating |-> body.rating]

\* POST /reviews: insertOne(newReview); new ObjectId throwing is the catch's 500.
postReviewsInsert(r, rvs) ==
  IF ObjectIdThrows(r.body.policyId)
  THEN [r |-> Respond(r, 500), reviews |-> rvs]
  ELSE [r |-> Respond([r EXCEPT !.wrote = TRUE], 201),
        reviews |-> Append(rvs, newReview(r.body))]

\* insertedId: a fresh id for each inserted application.
AidSeq == <<"a1", "a2", "a3", "a4", "a5">>

\* newApplication, with the fields the other routes read.  status and
\* assignedAgent come only from the body's spread, which here carries none.
newApplication(userId, policyId, apps) ==
  [_id |-> ObjectId(AidSeq[Len(apps) + 1]), userId |-> userId,
   policyId |-> ObjectId(policyId), status |-> "", assignedAgent |-> "",
   updatedBy |-> ""]

\* updateOne({ _id }, { $inc: { applicationsCount: 2 } })
incApplicationsCount_ByTwo(ps, oid) ==
  LET i == findPolicyIdx(ps, oid)
  IN IF i = 0 THEN ps ELSE [ps EXCEPT ![i].applicationsCount = @ + 2]

\* updateOne({ _id }, { $inc: { applicationsCount: 1 } }): one atomic
\* operation of the store on the first matching policy, if any.
incApplicationsCount(ps, oid) ==
  LET i == findPolicyIdx(ps, oid)
  IN IF i = 0 THEN ps ELSE [ps EXCEPT ![i].applicationsCount = @ + 1]

\* POST /customer/applications: the caller's record is loaded, whatever
\* its role.
submitApplicationUser(r0, us) ==
  LET r == Enter(r0)
      user == findUser(us, r.decoded)
  IN IF user = NullUser
     THEN Respond(r, 404)
     ELSE [r EXCEPT !.user = user, !.hpc = "policy"]

\* POST /customer/applications: the policy id is checked and the policy read.
submitApplicationPolicy(r, ps) ==
  LET b == r.body
  IN IF b.policyId = ""
     THEN Respond(r, 400)
     ELSE IF ObjectIdThrows(b.policyId)
          THEN Respond(r, 400)
          ELSE LET i == findPolicyIdx(ps, ObjectId(b.policyId))
               IN IF i = 0
                  THEN Respond(r, 404)
                  ELSE [r EXCEPT !.hpc = "insert",
                                 !.loc = [policyId |-> b.policyId, policy |-> ps[i]]]

\* POST /customer/applications with the body's userId left in the record
\* (the spread written after the userId field).
submitApplicationInsert_BodyUserId(r, apps) ==
  [r |-> [r EXCEPT !.hpc = "inc", !.wrote = TRUE],
   applications |-> Append(apps, newApplication(r.body.userId, r.loc.policyId, apps))]

\* POST /customer/applications: insertOne(newApplication), userId from the
\* loaded record.
submitApplicationInsert(r, apps) ==
  [r |-> [r EXCEPT !.hpc = "inc", !.wrote = TRUE],
   applications |-> Append(apps, newApplication(r.user.uid, r.loc.policyId, apps))]

\* The counter written back from the policy as the handler read it.
submitApplicationInc_SetFromRead(r, ps) ==
  LET i == findPolicyIdx(ps, ObjectId(r.loc.policyId))
  IN [r |-> Respond(r, 201),
      policies |-> IF i = 0 THEN ps
                   ELSE [ps EXCEPT ![i].applicationsCount =
                                      r.loc.policy.applicationsCount + 1]]

\* POST /customer/applications: the counter's $inc, then 201.
submitApplicationInc(r, ps) ==
  [r |-> Respond(r, 201),
   policies |-> incApplicationsCount(ps, ObjectId(r.loc.policyId))]

\* POST /applications (part_000): validation and the policy read; an
\* invalid id makes new ObjectId throw into the catch's 500.
postApplicationsLookup(r0, ps) ==
  LET r == Enter(r0)
      b == r.body
  IN IF b.userId = "" \/ b.policyId = ""
     THEN Respond(r, 400)
     ELSE IF ObjectIdThrows(b.policyId)
          THEN Respond(r, 500)
          ELSE LET i == findPolicyIdx(ps, ObjectId(b.policyId))
               IN IF i = 0
                  THEN Respond(r, 404)
                  ELSE [r EXCEPT !.hpc = "insert",
                                 !.loc = [policyId |-> b.policyId, policy |-> ps[i]]]

\* POST /applications (part_000): insertOne, userId as the body gave it.
postApplicationsInsert(r, apps) ==
  [r |-> [r EXCEPT !.hpc = "inc", !.wrote = TRUE],
   applications |-> Append(apps, newApplication(r.body.userId, r.loc.policyId, apps))]

\* POST /applications (part_000): the counter's $inc, then 201.
postApplicationsInc(r, ps) ==
  [r |-> Respond(r, 201),
   policies |-> incApplicationsCount(ps, ObjectId(r.loc.policyId))]

\* deleteOne that reports no match after removing the policy.
deletePolicy_RemoveThen404(r0, ps) ==
  LET r == Enter(r0)
  IN IF ObjectIdThrows(r.body.id)
     THEN [r |-> Respond(r, 500), policies |-> ps]
     ELSE LET i == findPolicyIdx(ps, ObjectId(r.body.id))
          IN IF i = 0
             THEN [r |-> Respond(r, 404), policies |-> ps]
             ELSE [r |-> Respond(r, 404), policies |-> RemoveAt(ps, i)]

\* DELETE /policies/:id
deletePolicy(r0, ps) ==
  LET r == Enter(r0)
  IN IF ObjectIdThrows(r.body.id)
     THEN [r |-> Respond(r, 500), policies |-> ps]
     ELSE LET i == findPolicyIdx(ps, ObjectId(r.body.id))
          IN IF i = 0
             THEN [r |-> Respond(r, 404), policies |-> ps]
             ELSE [r |-> Respond([r EXCEPT !.wrote = TRUE], 200),
                   policies |-> RemoveAt(ps, i)]

\* PATCH /applications/:id/status (admin): the body's status is stored as
\* it came; assignedAgent is set only when the body carries one.
patchApplicationStatus(r0, apps) ==
  LET r == Enter(r0)
      i == FirstIdx({k \in 1..Len(apps) : apps[k]._id = ObjectId(r.body.id)})
  IN IF ObjectIdThrows(r.body.id)
     THEN [r |-> Respond(r, 500), applications |-> apps]
     ELSE IF i = 0
          THEN [r |-> Respond(r, 404), applications |-> apps]
          ELSE [r |-> Respond([r EXCEPT !.wrote = TRUE], 200),
                applications |->
                  [apps EXCEPT ![i].status = r.body.status,
                               ![i].updatedBy = r.decoded,
                               ![i].assignedAgent =
                                 IF r.body.assignedAgent = "" THEN @
                                 ELSE r.body.assignedAgent]]

\* The query without its status condition.
approvedApplicationIdx_AnyStatus(apps, uid, oid) ==
  FirstIdx({k \in 1..Len(apps) : apps[k].userId = uid /\ apps[k].policyId = oid})

\* The query of POST /customer/claims: the caller's approved application
\* for the policy.
approvedApplicationIdx(apps, uid, oid) ==
  FirstIdx({k \in 1..Len(apps) : /\ apps[k].userId = uid
                                 /\ apps[k].policyId = oid
                                 /\ apps[k].status = "approved"})

\* POST /customer/claims: validation and the lookup of the application.
postClaimsLookup(r0, apps) ==
  LET r == Enter(r0)
      b == r.body
  IN IF b.policyId = "" \/ b.reason = ""
     THEN Respond(r, 400)
     ELSE IF ObjectIdThrows(b.policyId)
          THEN Respond(r, 500)
          ELSE LET i == approvedApplicationIdx(apps, r.user.uid, ObjectId(b.policyId))
               IN IF i = 0
                  THEN Respond(r, 404)
                  ELSE [r EXCEPT !.hpc = "insert",
                                 !.loc = [policyId |-> b.policyId,
                                          application |-> apps[i]]]

newClaim(r) ==
  [userId |-> r.user.uid, policyId |-> ObjectId(r.body.policyId),
   applicationId |-> r.loc.application._id, reason |-> r.body.reason,
   status |-> "pending"]

\* POST /customer/claims: insertOne(newClaim), then 201.
postClaimsInsert(r, cls) ==
  [r |-> Respond([r EXCEPT !.wrote = TRUE], 201),
   claims |-> Append(cls, newClaim(r))]

\* The fields POST /policies requires, in the order it lists them.
required ==
  <<"title", "category", "description", "minAge", "maxAge", "coverageMin",
    "coverageMax", "basePremium">>

\* A field the body does not carry (policyData[field] is undefined).
Absent == "<absent>"

\* !value: undefined and the empty string are falsy.
Falsy(value) == value \in {Absent, ""}

\* required.filter(field => !policyData[field]) with the first field skipped.
missing_SkipTitle(body) ==
  SelectSeq(required, LAMBDA field : field # "title" /\ Falsy(body[field]))

\* required.filter(field => !policyData[field])
missing(body) == SelectSeq(required, LAMBDA field : Falsy(body[field]))

\* Ids the store gives to policies created while the server runs.
Nids == <<"n1", "n2", "n3", "n4", "n5">>

\* insertedId of a new policy: an id no policy has had.  Created policies
\* are never among the ids the requests name, so the next unused one is fresh.
insertedPolicyId(ps) ==
  Nids[Cardinality({k \in 1..Len(ps) : \E n \in 1..Len(Nids) : ps[k]._id.v = Nids[n]}) + 1]

\* newPolicy, with the fields the other routes read; the counter starts at 0
\* whatever the body carries.
newPolicy(body, ps) ==
  [_id |-> ObjectId(insertedPolicyId(ps)), title |-> body["title"],
   applicationsCount |-> 0]

\* POST /policies
postPolicies(r0, ps) ==
  LET r == Enter(r0)
  IN IF Len(missing(r.body)) > 0
     THEN [r |-> Respond(r, 400), policies |-> ps]
     ELSE [r |-> Respond([r EXCEPT !.wrote = TRUE], 201),
           policies |-> Append(ps, newPolicy(r.body, ps))]

\* POST /admin/policies: the same validation and insert (the record also
\* names its creator).
postAdminPolicies(r0, ps) ==
  LET r == Enter(r0)
  IN IF Len(missing(r.body)) > 0
     THEN [r |-> Respond(r, 400), policies |-> ps]
     ELSE [r |-> Respond([r EXCEPT !.wrote = TRUE], 201),
           policies |-> Append(ps, newPolicy(r.body, ps))]

\* DELETE /admin/policies/:id
deleteAdminPolicy(r0, ps) ==
  LET r == Enter(r0)
  IN IF ObjectIdThrows(r.body.id)
     THEN [r |-> Respond(r, 500), policies |-> ps]
     ELSE LET i == findPolicyIdx(ps, ObjectId(r.body.id))
          IN IF i = 0
             THEN [r |-> Respond(r, 404), policies |-> ps]
             ELSE [r |-> Respond([r EXCEPT !.wrote = TRUE], 200),
                   policies |-> RemoveAt(ps, i)]

\* DELETE /admin/users/:userId with the self-delete test left out.
deleteUser_NoSelfTest(r0, us) ==
  LET r == Enter(r0)
      i == FirstIdx({k \in 1..Len(us) : us[k].uid = r.body.userId})
  IN IF i = 0
     THEN [r |-> Respond(r, 404), users |-> us]
     ELSE [r |-> Respond([r EXCEPT !.wrote = TRUE], 200), users |-> RemoveAt(us, i)]

\* DELETE /admin/users/:userId
deleteUser(r0, us) ==
  LET r == Enter(r0)
      i == FirstIdx({k \in 1..Len(us) : us[k].uid = r.body.userId})
  IN IF r.body.userId = r.user.uid
     THEN [r |-> Respond(r, 400), users |-> us]
     ELSE IF i = 0
          THEN [r |-> Respond(r, 404), users |-> us]
          ELSE [r |-> Respond([r EXCEPT !.wrote = TRUE], 200),
                users |-> RemoveAt(us, i)]

\* POST /apply-agent: a record of the caller that already has an
\* agentApplicationStatus is answered 400.
applyAgentLookup(r0, us) ==
  LET r == Enter(r0)
  IN IF \E k \in 1..Len(us) : /\ us[k].uid = r.user.uid
                              /\ us[k].agentApplicationStatus # ""
     THEN Respond(r, 400)
     ELSE [r EXCEPT !.hpc = "update"]

\* POST /apply-agent: the caller's record becomes a pending application.
applyAgentUpdate(r, us) ==
  LET i == FirstIdx({k \in 1..Len(us) : us[k].uid = r.user.uid})
  IN [r |-> Respond([r EXCEPT !.wrote = TRUE], 200),
      users |-> IF i = 0 THEN us
                ELSE [us EXCEPT ![i].agentApplicationStatus = "pending"]]

\* PATCH /admin/agent-applications/:userId whose rejection also resets the role.
patchAgentApplication_RejectDemotes(r0, us) ==
  LET r == Enter(r0)
      i == FirstIdx({k \in 1..Len(us) : us[k].uid = r.body.userId})
  IN IF r.body.action \notin {"approve", "reject"}
     THEN [r |-> Respond(r, 400), users |-> us]
     ELSE IF i = 0
          THEN [r |-> Respond(r, 404), users |-> us]
          ELSE [r |-> Respond([r EXCEPT !.wrote = TRUE], 200),
                users |-> [us EXCEPT
                  ![i].agentApplicationStatus =
                     IF r.body.action = "approve" THEN "approved" ELSE "rejected",
                  ![i].role = IF r.body.action = "approve" THEN "agent" ELSE "customer"]]

\* PATCH /admin/agent-applications/:userId
patchAgentApplication(r0, us) ==
  LET r == Enter(r0)
      i == FirstIdx({k \in 1..Len(us) : us[k].uid = r.body.userId})
  IN IF r.body.action \notin {"approve", "reject"}
     THEN [r |-> Respond(r, 400), users |-> us]
     ELSE IF i = 0
          THEN [r |-> Respond(r, 404), users |-> us]
          ELSE [r |-> Respond([r EXCEPT !.wrote = TRUE], 200),
                users |-> [us EXCEPT
                  ![i].agentApplicationStatus =
                     IF r.body.action = "approve" THEN "approved" ELSE "rejected",
                  ![i].role = IF r.body.action = "approve" THEN "agent" ELSE @]]

\* displayName.trim()
Trim(name) ==
  CASE name = " " -> ""
    [] name = "d3 " -> "d3"
    [] OTHER -> name

\* PATCH /profile: the caller's display name and photo.
patchProfileUpdate(r0, us) ==
  LET r == Enter(r0)
      i == FirstIdx({k \in 1..Len(us) : us[k].uid = r.decoded})
  IN IF Trim(r.body.displayName) = ""
     THEN [r |-> Respond(r, 400), users |-> us]
     ELSE IF i = 0
          THEN [r |-> Respond(r, 404), users |-> us]
          ELSE [r |-> [r EXCEPT !.hpc = "reread", !.wrote = TRUE],
                users |-> [us EXCEPT ![i].displayName = Trim(r.body.displayName),
                                     ![i].photoURL = r.body.photoURL]]

\* PATCH /profile: the record is read back and returned.
patchProfileReread(r, us) == Respond(r, 200)

\* parseInt(value) || fallback for a query parameter given as a
\* non-negative number: 0 (as an absent parameter's NaN) gives the fallback.
parseIntOr(value, fallback) == IF value = 0 THEN fallback ELSE value

\* Math.ceil(totalPolicies / limitNum)
totalPages(totalPolicies, limitNum) ==
  IF totalPolicies % limitNum = 0
  THEN totalPolicies \div limitNum
  ELSE totalPolicies \div limitNum + 1

\* The pagination record with hasNext true on the last page too.
pagination_HasNextInclusive(pageNum, limitNum, totalPolicies) ==
  [currentPage |-> pageNum,
   totalPages |-> totalPages(totalPolicies, limitNum),
   totalPolicies |-> totalPolicies,
   hasNext |-> pageNum <= totalPages(totalPolicies, limitNum),
   hasPrev |-> pageNum > 1,
   limit |-> limitNum]

\* The pagination record of the response.
pagination(pageNum, limitNum, totalPolicies) ==
  [currentPage |-> pageNum,
   totalPages |-> totalPages(totalPolicies, limitNum),
   totalPolicies |-> totalPolicies,
   hasNext |-> pageNum < totalPages(totalPolicies, limitNum),
   hasPrev |-> pageNum > 1,
   limit |-> limitNum]

\* find(query).sort(sortObj).skip(skip).limit(limitNum).toArray() on the
\* matching policies, in their sorted order.
skipLimit(found, skip, limitNum) ==
  SubSeq(found, skip + 1, IF skip + limitNum < Len(found) THEN skip + limitNum
                          ELSE Len(found))

\* GET /policies: the page of policies is read.
getPoliciesFind(r0, ps) ==
  LET r == Enter(r0)
      pageNum == parseIntOr(r.body.page, 1)
      limitNum == parseIntOr(r.body.limit, 10)
  IN [r EXCEPT !.hpc = "count",
               !.loc = [query |-> r.body, pageNum |-> pageNum, limitNum |-> limitNum,
                        policies |-> skipLimit(ps, (pageNum - 1) * limitNum, limitNum)]]

\* GET /policies: countDocuments(query), then the response.
getPoliciesCount(r, ps) ==
  Respond([r EXCEPT !.loc = [query |-> r.loc.query, policies |-> r.loc.policies,
                             pagination |-> pagination(r.loc.pageNum, r.loc.limitNum,
                                                       Len(ps))]],
          200)

\* ------------------------------------------------------------- blogs
BidSeq == <<"b1", "b2", "b3", "b4", "b5">>

\* insertedId of a new blog: the first id no stored blog has.
insertedBlogId(bs) ==
  BidSeq[FirstIdx({n \in 1..Len(BidSeq) : \A k \in 1..Len(bs) : bs[k]._id.v # BidSeq[n]})]

\* newBlog, with the fields the routes read.
newBlog(r, bs) ==
  [_id |-> ObjectId(insertedBlogId(bs)), title |-> r.body.title,
   content |-> r.body.content, authorId |-> r.user.uid]

\* POST /agent/blogs
postBlog(r0, bs) ==
  LET r == Enter(r0)
  IN IF r.body.title = "" \/ r.body.content = ""
     THEN [r |-> Respond(r, 400), blogs |-> bs]
     ELSE [r |-> Respond([r EXCEPT !.wrote = TRUE], 201),
           blogs |-> Append(bs, newBlog(r, bs))]

\* updateOne({ _id, authorId: req.user.uid }, ...): the blog the filter matches.
ownBlogIdx(bs, oid, uid) ==
  FirstIdx({k \in 1..Len(bs) : bs[k]._id = oid /\ bs[k].authorId = uid})

\* PUT /agent/blogs/:id with the filter on _id alone.
putBlog_AnyAuthor(r0, bs) ==
  LET r == Enter(r0)
  IN IF ObjectIdThrows(r.body.id)
     THEN [r |-> Respond(r, 500), blogs |-> bs]
     ELSE LET i == FirstIdx({k \in 1..Len(bs) : bs[k]._id = ObjectId(r.body.id)})
          IN IF i = 0
             THEN [r |-> Respond(r, 404), blogs |-> bs]
             ELSE [r |-> Respond([r EXCEPT !.wrote = TRUE], 200),
                   blogs |-> [bs EXCEPT ![i].title = r.body.title,
                                        ![i].content = r.body.content]]

\* PUT /agent/blogs/:id
putBlog(r0, bs) ==
  LET r == Enter(r0)
  IN IF ObjectIdThrows(r.body.id)
     THEN [r |-> Respond(r, 500), blogs |-> bs]
     ELSE LET i == ownBlogIdx(bs, ObjectId(r.body.id), r.user.uid)
          IN IF i = 0
             THEN [r |-> Respond(r, 404), blogs |-> bs]
             ELSE [r |-> Respond([r EXCEPT !.wrote = TRUE], 200),
                   blogs |-> [bs EXCEPT ![i].title = r.body.title,
                                        ![i].content = r.body.content]]

\* DELETE /agent/blogs/:id
deleteBlog(r0, bs) ==
  LET r == Enter(r0)
  IN IF ObjectIdThrows(r.body.id)
     THEN [r |-> Respond(r, 500), blogs |-> bs]
     ELSE LET i == ownBlogIdx(bs, ObjectId(r.body.id), r.user.uid)
          IN IF i = 0
             THEN [r |-> Respond(r, 404), blogs |-> bs]
             ELSE [r |-> Respond([r EXCEPT !.wrote = TRUE], 200),
                   blogs |-> RemoveAt(bs, i)]

\* ---------------------------------------------------------- failures
\* verifyFirebaseToken when verifyIdToken throws because the identity
\* provider fails: the catch answers 403, whatever the token.
verifyFirebaseTokenFails(r0) ==
  LET r == Enter(r0)
  IN IF r.hdr.scheme # "Bearer" THEN Respond(r, 401) ELSE Respond(r, 403)

\* A role guard whose findOne throws: the guard's catch answers 500.
RoleGuardFails(r0) ==
  LET r == Enter(r0)
  IN IF r.decoded = "" THEN Respond(r, 401) ELSE Respond(r, 500)

\* A storage call of POST /customer/applications throws (the findOne of the
\* user or the policy, the insertOne or the updateOne, according to where
\* the handler stands): the catch answers 500 and undoes nothing.
submitApplicationFails(r0) ==
  Respond(IF r0.hpc = "" THEN Enter(r0) ELSE r0, 500)

\* GET /payments/user/:userId: the caller's record is read and its role
\* tested; a caller without a record makes requestingUser.role throw into
\* the catch.
getUserPaymentsUser(r0, us) ==
  LET r == Enter(r0)
      requestingUser == findUser(us, r.decoded)
  IN IF requestingUser = NullUser
     THEN Respond(r, 500)
     ELSE IF requestingUser.role # "admin" /\ r.decoded # r.body.userId
          THEN Respond(r, 403)
          ELSE [r EXCEPT !.hpc = "payments", !.loc = [userId |-> r.body.userId]]

\* GET /payments/user/:userId: paymentsCollection.find({ userId })
getUserPaymentsFind(r, pays) ==
  [r EXCEPT !.hpc = "details",
            !.loc = [userId |-> r.loc.userId,
                     payments |-> SelectSeq(pays, LAMBDA p : p.userId = r.loc.userId)]]

\* GET /payments/user/:userId: each payment's policy is read, then 200 with
\* the payments and the policy found for each (0 for none).
getUserPaymentsDetails(r, ps) ==
  Respond([r EXCEPT !.loc =
             [userId |-> r.loc.userId,
              payments |-> r.loc.payments,
              policy |-> [k \in 1..Len(r.loc.payments) |->
                            findPolicyIdx(ps, r.loc.payments[k].policyId)]]], 200)

\* A storage call of GET /payments/user/:userId throws and nothing catches
\* it: the rejection is unhandled and the request is never answered.
getUserPaymentsFails_NoCatch(r0) ==
  [(IF r0.hpc = "" THEN Enter(r0) ELSE r0) EXCEPT !.hpc = "unhandled"]

\* A storage call of GET /payments/user/:userId throws: the catch answers 500.
getUserPaymentsFails(r0) ==
  Respond(IF r0.hpc = "" THEN Enter(r0) ELSE r0, 500)

\* POST /confirm-payment when insertOne throws: the validation and
\* new ObjectId come first, then the catch's 500; nothing is stored.
confirmPaymentFails(r0) ==
  LET r == Enter(r0)
  IN IF r.body.paymentIntentId = "" \/ r.body.policyId = "" \/ r.body.amount = 0
     THEN Respond(r, 400)
     ELSE Respond(r, 500)

\* POST /create-payment-intent: validation, then the processor's answer.
createPaymentIntent(r0) ==
  LET r == Enter(r0)
  IN IF r.body.amount = 0 \/ r.body.policyId = "" \/ r.body.userId = ""
     THEN Respond(r, 400)
     ELSE Respond(r, 200)

\* POST /create-payment-intent when stripe.paymentIntents.create throws.
createPaymentIntentFails(r0) ==
  LET r == Enter(r0)
  IN IF r.body.amount = 0 \/ r.body.policyId = "" \/ r.body.userId = ""
     THEN Respond(r, 400)
     ELSE Respond(r, 500)

\* PATCH /users/:uid/profile with the whole body in the $set, a role
\* included.
patchUsersProfileUpdate_SetBody(r0, us) ==
  LET r == Enter(r0)
      i == FirstIdx({k \in 1..Len(us) : us[k].uid = r.body.uid})
  IN IF Trim(r.body.displayName) = ""
     THEN [r |-> Respond(r, 400), users |-> us]
     ELSE [r |-> [r EXCEPT !.hpc = "reread", !.wrote = TRUE],
           users |-> IF i = 0 THEN us
                     ELSE [us EXCEPT ![i].displayName = Trim(r.body.displayName),
                                     ![i].photoURL = r.body.photoURL,
                                     ![i].role = r.body.role]]

\* PATCH /users/:uid/profile: display name and photo of the record the URL
\* names, whoever the caller is; no test that a record matched.
patchUsersProfileUpdate(r0, us) ==
  LET r == Enter(r0)
      i == FirstIdx({k \in 1..Len(us) : us[k].uid = r.body.uid})
  IN IF Trim(r.body.displayName) = ""
     THEN [r |-> Respond(r, 400), users |-> us]
     ELSE [r |-> [r EXCEPT !.hpc = "reread", !.wrote = TRUE],
           users |-> IF i = 0 THEN us
                     ELSE [us EXCEPT ![i].displayName = Trim(r.body.displayName),
                                     ![i].photoURL = r.body.photoURL]]

\* PATCH /users/:uid/profile: the record is read back and returned (null
\* when there is none).
patchUsersProfileReread(r, us) == Respond(r, 200)

\* PATCH /users/:uid/last-login: $set of lastLogin alone, a field none of
\* the other routes reads; 200 whether or not a record matched.
patchLastLogin(r0, us) == [r |-> Respond(Enter(r0), 200), users |-> us]

\* ------------------------------------------------------------ actions
\* A request arrives and takes the lowest free slot.
Arrive(s, ep) ==
  /\ req[s] = Idle
  /\ \A t \in Slots : t < s => req[t] # Idle
  /\ nreq < MaxReqs
  /\ req' = [req EXCEPT ![s] = NewRequest(ep)]
  /\ nreq' = nreq + 1
  /\ UNCHANGED db

StartPatchUserRole(s) == Arrive(s, "PATCH /admin/users/:targetUserId/role")
StartPatchAgentApplicationStatus(s) == Arrive(s, "PATCH /agent/applications/:id/status")
StartConfirmPayment(s) == Arrive(s, "POST /confirm-payment")

\* The header is read here; a second pass of the same request (a later
\* registration of its route) reads the same header again.
VerifyFirebaseTokenStep(s) ==
  /\ AtStage(req[s], "verifyFirebaseToken")
  /\ \E hdr \in Headers :
       /\ req[s].hdr \in {Unread, hdr}
       /\ req' = [req EXCEPT ![s] = verifyFirebaseToken([req[s] EXCEPT !.hdr = hdr])]
  /\ UNCHANGED <<db, nreq>>

VerifyAdminStep(s) ==
  /\ AtStage(req[s], "verifyAdmin")
  /\ req' = [req EXCEPT ![s] = verifyAdmin(req[s], users)]
  /\ UNCHANGED <<db, nreq>>

VerifyAgentStep(s) ==
  /\ AtStage(req[s], "verifyAgent")
  /\ req' = [req EXCEPT ![s] = verifyAgent(req[s], users)]
  /\ UNCHANGED <<db, nreq>>

VerifyCustomerStep(s) ==
  /\ AtStage(req[s], "verifyCustomer")
  /\ req' = [req EXCEPT ![s] = verifyCustomer(req[s], users)]
  /\ UNCHANGED <<db, nreq>>

RoleInputs == validRoles \cup {"owner"}

PatchUserRoleStep(s) ==
  /\ AtStage(req[s], "patchUserRole")
  /\ \E target \in Uids, role \in RoleInputs :
       LET r == [req[s] EXCEPT !.body = [targetUserId |-> target, Role |-> role]]
           out == patchUserRole(r, users)
       IN /\ req' = [req EXCEPT ![s] = out.r]
          /\ users' = out.users
  /\ UNCHANGED <<policies, applications, reviews, payments, claims, blogs, nreq>>

PatchAgentApplicationStatusStep(s) ==
  /\ AtStage(req[s], "patchAgentApplicationStatus")
  /\ \E id \in {"a1", "a2", "zz"}, status \in {"approved", "done"} :
       LET r == [req[s] EXCEPT !.body = [id |-> id, status |-> status]]
           out == patchAgentApplicationStatus(r, applications)
       IN /\ req' = [req EXCEPT ![s] = out.r]
          /\ applications' = out.applications
  /\ UNCHANGED <<users, policies, reviews, payments, claims, blogs, nreq>>

PaymentInputs ==
  {[paymentIntentId |-> "pi_1", policyId |-> "p1", amount |-> 50],
   [paymentIntentId |-> "pi_1", policyId |-> "p2", amount |-> 50],
   [paymentIntentId |-> "", policyId |-> "p1", amount |-> 50],
   [paymentIntentId |-> "pi_1", policyId |-> "zz", amount |-> 50]}

\* Both handlers registered for POST /confirm-payment.
ConfirmPaymentStep(s) ==
  /\ Active(req[s])
  /\ StageOf(req[s]) \in {"confirmPayment", "confirmPaymentTokenOnly"}
  /\ \E body \in PaymentInputs :
       LET r == [req[s] EXCEPT !.body = body]
           out == IF StageOf(r) = "confirmPayment"
                  THEN confirmPayment(r, payments)
                  ELSE confirmPaymentTokenOnly(r, payments)
       IN /\ req' = [req EXCEPT ![s] = out.r]
          /\ payments' = out.payments
  /\ UNCHANGED <<users, policies, applications, reviews, claims, blogs, nreq>>

\* Bodies of POST /users: any of the fields may be missing, and a role
\* field may ride along.
UserInputs ==
  {[uid |-> uid, email |-> email, displayName |-> given[1], photoURL |-> "f2",
    provider |-> given[2], role |-> "admin"] :
     uid \in {"", "u2", "u4"}, email \in {"", "e2@x"},
     given \in {<<"", "">>, <<"d2", "google">>}}

StartPostUsers(s) == Arrive(s, "POST /users")

PostUsersLookupStep(s) ==
  /\ AtStage(req[s], "postUsers")
  /\ req[s].hpc = ""
  /\ \E body \in UserInputs :
       req' = [req EXCEPT ![s] = postUsersLookup([req[s] EXCEPT !.body = body], users)]
  /\ UNCHANGED <<db, nreq>>

PostUsersUpdateStep(s) ==
  /\ AtStage(req[s], "postUsers")
  /\ req[s].hpc = "update"
  /\ LET out == postUsersUpdate(req[s], users)
     IN /\ req' = [req EXCEPT ![s] = out.r]
        /\ users' = out.users
  /\ UNCHANGED <<policies, applications, reviews, payments, claims, blogs, nreq>>

PostUsersRereadStep(s) ==
  /\ AtStage(req[s], "postUsers")
  /\ req[s].hpc = "reread"
  /\ req' = [req EXCEPT ![s] = postUsersReread(req[s], users)]
  /\ UNCHANGED <<db, nreq>>

PostUsersInsertStep(s) ==
  /\ AtStage(req[s], "postUsers")
  /\ req[s].hpc = "insert"
  /\ LET out == postUsersInsert(req[s], users)
     IN /\ req' = [req EXCEPT ![s] = out.r]
        /\ users' = out.users
  /\ UNCHANGED <<policies, applications, reviews, payments, claims, blogs, nreq>>

\* Review bodies: a missing, a valid and an out-of-range rating; a missing,
\* a known, an unknown and a malformed policy id; the customer's, the
\* agent's or no userId.
ReviewInputs ==
  [rating : {0, 3, 6}, feedback : {"", "fb"}, policyId : {"", "p1", "a1", "zz"},
   userId : {"", "u2", "u3"}]

StartPostReviews(s) == Arrive(s, "POST /reviews")
StartPostReviewsUnguarded(s) == Arrive(s, "POST /reviews (part_000)")

PostReviewsLookupStep(s) ==
  /\ AtStage(req[s], "postReviews")
  /\ req[s].hpc = ""
  /\ \E body \in ReviewInputs :
       req' = [req EXCEPT ![s] = postReviewsLookup([req[s] EXCEPT !.body = body], reviews)]
  /\ UNCHANGED <<db, nreq>>

PostReviewsInsertStep(s) ==
  /\ AtStage(req[s], "postReviews")
  /\ req[s].hpc = "insert"
  /\ LET out == postReviewsInsert(req[s], reviews)
     IN /\ req' = [req EXCEPT ![s] = out.r]
        /\ reviews' = out.reviews
  /\ UNCHANGED <<users, policies, applications, payments, claims, blogs, nreq>>

\* Application bodies: a missing, a malformed, an unknown and two known
\* policy ids, with a userId of the body's own choosing.
ApplicationInputs ==
  [policyId : {"", "zz", "a1", "p1", "p2"}, userId : {"u1"}]

\* Bodies of the earlier revision's route, where the userId may be missing.
PostApplicationsInputs ==
  [policyId : {"", "zz", "a1", "p1"}, userId : {"", "u3"}]

StartSubmitApplication(s) == Arrive(s, "POST /customer/applications")
StartPostApplications(s) == Arrive(s, "POST /applications")
StartDeletePolicy(s) == Arrive(s, "DELETE /policies/:id")

SubmitApplicationUserStep(s) ==
  /\ AtStage(req[s], "submitApplication")
  /\ req[s].hpc = ""
  /\ req' = [req EXCEPT ![s] = submitApplicationUser(req[s], users)]
  /\ UNCHANGED <<db, nreq>>

SubmitApplicationPolicyStep(s) ==
  /\ AtStage(req[s], "submitApplication")
  /\ req[s].hpc = "policy"
  /\ \E body \in ApplicationInputs :
       req' = [req EXCEPT ![s] =
                 submitApplicationPolicy([req[s] EXCEPT !.body = body], policies)]
  /\ UNCHANGED <<db, nreq>>

SubmitApplicationInsertStep(s) ==
  /\ AtStage(req[s], "submitApplication")
  /\ req[s].hpc = "insert"
  /\ LET out == submitApplicationInsert(req[s], applications)
     IN /\ req' = [req EXCEPT ![s] = out.r]
        /\ applications' = out.applications
  /\ UNCHANGED <<users, policies, reviews, payments, claims, blogs, nreq>>

SubmitApplicationIncStep(s) ==
  /\ AtStage(req[s], "submitApplication")
  /\ req[s].hpc = "inc"
  /\ LET out == submitApplicationInc(req[s], policies)
     IN /\ req' = [req EXCEPT ![s] = out.r]
        /\ policies' = out.policies
  /\ UNCHANGED <<users, applications, reviews, payments, claims, blogs, nreq>>

PostApplicationsLookupStep(s) ==
  /\ AtStage(req[s], "postApplications")
  /\ req[s].hpc = ""
  /\ \E body \in PostApplicationsInputs :
       req' = [req EXCEPT ![s] =
                 postApplicationsLookup([req[s] EXCEPT !.body = body], policies)]
  /\ UNCHANGED <<db, nreq>>

PostApplicationsInsertStep(s) ==
  /\ AtStage(req[s], "postApplications")
  /\ req[s].hpc = "insert"
  /\ LET out == postApplicationsInsert(req[s], applications)
     IN /\ req' = [req EXCEPT ![s] = out.r]
        /\ applications' = out.applications
  /\ UNCHANGED <<users, policies, reviews, payments, claims, blogs, nreq>>

PostApplicationsIncStep(s) ==
  /\ AtStage(req[s], "postApplications")
  /\ req[s].hpc = "inc"
  /\ LET out == postApplicationsInc(req[s], policies)
     IN /\ req' = [req EXCEPT ![s] = out.r]
        /\ policies' = out.policies
  /\ UNCHANGED <<users, applications, reviews, payments, claims, blogs, nreq>>

\* DELETE /policies/:id that also removes the applications of the policy.
DeletePolicyStep_Cascade(s) ==
  /\ AtStage(req[s], "deletePolicy")
  /\ \E id \in {"p1", "zz", "a1"} :
       LET out == deletePolicy([req[s] EXCEPT !.body = [id |-> id]], policies)
       IN /\ req' = [req EXCEPT ![s] = out.r]
          /\ policies' = out.policies
          /\ applications' =
               IF out.r.resp = 200
               THEN SelectSeq(applications, LAMBDA a : a.policyId # ObjectId(id))
               ELSE applications
  /\ UNCHANGED <<users, reviews, payments, claims, blogs, nreq>>

DeletePolicyStep(s) ==
  /\ AtStage(req[s], "deletePolicy")
  /\ \E id \in {"p1", "zz", "a1"} :
       LET out == deletePolicy([req[s] EXCEPT !.body = [id |-> id]], policies)
       IN /\ req' = [req EXCEPT ![s] = out.r]
          /\ policies' = out.policies
  /\ UNCHANGED <<users, applications, reviews, payments, claims, blogs, nreq>>

\* Status bodies of the admin route: two statuses of the enumeration and
\* one outside it, with or without an agent to assign.
StatusInputs ==
  [id : {"a1", "a2", "zz"}, status : {"approved", "rejected", "done"},
   assignedAgent : {"", "u3"}]

StartPatchApplicationStatus(s) == Arrive(s, "PATCH /applications/:id/status")

PatchApplicationStatusStep(s) ==
  /\ AtStage(req[s], "patchApplicationStatus")
  /\ \E body \in StatusInputs :
       LET out == patchApplicationStatus([req[s] EXCEPT !.body = body], applications)
       IN /\ req' = [req EXCEPT ![s] = out.r]
          /\ applications' = out.applications
  /\ UNCHANGED <<users, policies, reviews, payments, claims, blogs, nreq>>

\* Claim bodies: a missing, a malformed and two known policy ids, with or
\* without a reason.
ClaimInputs == [policyId : {"", "zz", "p1", "p2"}, reason : {"", "r1"}]

StartPostClaims(s) == Arrive(s, "POST /customer/claims")

PostClaimsLookupStep(s) ==
  /\ AtStage(req[s], "postClaims")
  /\ req[s].hpc = ""
  /\ \E body \in ClaimInputs :
       req' = [req EXCEPT ![s] = postClaimsLookup([req[s] EXCEPT !.body = body], applications)]
  /\ UNCHANGED <<db, nreq>>

PostClaimsInsertStep(s) ==
  /\ AtStage(req[s], "postClaims")
  /\ req[s].hpc = "insert"
  /\ LET out == postClaimsInsert(req[s], claims)
     IN /\ req' = [req EXCEPT ![s] = out.r]
        /\ claims' = out.claims
  /\ UNCHANGED <<users, policies, applications, reviews, payments, blogs, nreq>>

RequiredFields == {required[i] : i \in 1..Len(required)}

\* Policy bodies: every required field absent or given, and the bodies that
\* give every field but leave one empty.
PolicyInputs ==
  [RequiredFields -> {Absent, "v"}]
    \cup {[field \in RequiredFields |-> IF field = empty THEN "" ELSE "v"] :
            empty \in RequiredFields}

StartPostPolicies(s) == Arrive(s, "POST /policies")
StartPostAdminPolicies(s) == Arrive(s, "POST /admin/policies")
StartDeleteAdminPolicy(s) == Arrive(s, "DELETE /admin/policies/:id")

PostPoliciesStep(s) ==
  /\ AtStage(req[s], "postPolicies")
  /\ \E body \in PolicyInputs :
       LET out == postPolicies([req[s] EXCEPT !.body = body], policies)
       IN /\ req' = [req EXCEPT ![s] = out.r]
          /\ policies' = out.policies
  /\ UNCHANGED <<users, applications, reviews, payments, claims, blogs, nreq>>

PostAdminPoliciesStep(s) ==
  /\ AtStage(req[s], "postAdminPolicies")
  /\ \E body \in PolicyInputs :
       LET out == postAdminPolicies([req[s] EXCEPT !.body = body], policies)
       IN /\ req' = [req EXCEPT ![s] = out.r]
          /\ policies' = out.policies
  /\ UNCHANGED <<users, applications, reviews, payments, claims, blogs, nreq>>

\* Ids of the admin delete route: a policy's, an unknown and a malformed one.
DeleteInputs == {"p2", "a1", "zz"}

DeleteAdminPolicyStep(s) ==
  /\ AtStage(req[s], "deleteAdminPolicy")
  /\ \E id \in DeleteInputs :
       LET out == deleteAdminPolicy([req[s] EXCEPT !.body = [id |-> id]], policies)
       IN /\ req' = [req EXCEPT ![s] = out.r]
          /\ policies' = out.policies
  /\ UNCHANGED <<users, applications, reviews, payments, claims, blogs, nreq>>

StartDeleteUser(s) == Arrive(s, "DELETE /admin/users/:userId")
StartApplyAgent(s) == Arrive(s, "POST /apply-agent")
StartPatchAgentApplication(s) == Arrive(s, "PATCH /admin/agent-applications/:userId")
StartPatchProfile(s) == Arrive(s, "PATCH /profile")

DeleteUserStep(s) ==
  /\ AtStage(req[s], "deleteUser")
  /\ \E userId \in Uids :
       LET out == deleteUser([req[s] EXCEPT !.body = [userId |-> userId]], users)
       IN /\ req' = [req EXCEPT ![s] = out.r]
          /\ users' = out.users
  /\ UNCHANGED <<policies, applications, reviews, payments, claims, blogs, nreq>>

ApplyAgentLookupStep(s) ==
  /\ AtStage(req[s], "applyAgent")
  /\ req[s].hpc = ""
  /\ req' = [req EXCEPT ![s] = applyAgentLookup(req[s], users)]
  /\ UNCHANGED <<db, nreq>>

ApplyAgentUpdateStep(s) ==
  /\ AtStage(req[s], "applyAgent")
  /\ req[s].hpc = "update"
  /\ LET out == applyAgentUpdate(req[s], users)
     IN /\ req' = [req EXCEPT ![s] = out.r]
        /\ users' = out.users
  /\ UNCHANGED <<policies, applications, reviews, payments, claims, blogs, nreq>>

\* The two actions of the route and one it does not know.
ActionInputs == {"approve", "reject", "promote"}

PatchAgentApplicationStep(s) ==
  /\ AtStage(req[s], "patchAgentApplication")
  /\ \E userId \in Uids, action \in ActionInputs :
       LET r == [req[s] EXCEPT !.body = [userId |-> userId, action |-> action]]
           out == patchAgentApplication(r, users)
       IN /\ req' = [req EXCEPT ![s] = out.r]
          /\ users' = out.users
  /\ UNCHANGED <<policies, applications, reviews, payments, claims, blogs, nreq>>

\* Profile bodies: no name, a blank one, and one with a trailing space.
ProfileInputs == [displayName : {"", " ", "d3 "}, photoURL : {"f3"}]

PatchProfileUpdateStep(s) ==
  /\ AtStage(req[s], "patchProfile")
  /\ req[s].hpc = ""
  /\ \E body \in ProfileInputs :
       LET out == patchProfileUpdate([req[s] EXCEPT !.body = body], users)
       IN /\ req' = [req EXCEPT ![s] = out.r]
          /\ users' = out.users
  /\ UNCHANGED <<policies, applications, reviews, payments, claims, blogs, nreq>>

PatchProfileRereadStep(s) ==
  /\ AtStage(req[s], "patchProfile")
  /\ req[s].hpc = "reread"
  /\ req' = [req EXCEPT ![s] = patchProfileReread(req[s], users)]
  /\ UNCHANGED <<db, nreq>>

\* Query strings of GET /policies: page and limit, 0 standing for a
\* parameter that is absent or does not parse.
PageInputs == [page : 0..MaxPage, limit : 0..MaxLimit]

GetPoliciesFindStep(s) ==
  /\ AtStage(req[s], "getPolicies")
  /\ req[s].hpc = ""
  /\ \E query \in PageInputs :
       req' = [req EXCEPT ![s] = getPoliciesFind([req[s] EXCEPT !.body = query], policies)]
  /\ UNCHANGED <<db, nreq>>

GetPoliciesCountStep(s) ==
  /\ AtStage(req[s], "getPolicies")
  /\ req[s].hpc = "count"
  /\ req' = [req EXCEPT ![s] = getPoliciesCount(req[s], policies)]
  /\ UNCHANGED <<db, nreq>>

StartPostBlog(s) == Arrive(s, "POST /agent/blogs")
StartPutBlog(s) == Arrive(s, "PUT /agent/blogs/:id")
StartDeleteBlog(s) == Arrive(s, "DELETE /agent/blogs/:id")

\* Bodies of POST /agent/blogs: complete, or one of the two fields missing.
BlogInputs ==
  {[title |-> "t2", content |-> "c2"], [title |-> "", content |-> "c2"],
   [title |-> "t2", content |-> ""]}

\* The ids PUT and DELETE name: the stored blog, the next one created, and
\* a malformed one.
BlogIds == {"b1", "b2", "zz"}

PutBlogInputs == [id : BlogIds, title : {"t3"}, content : {"c3"}]

PostBlogStep(s) ==
  /\ AtStage(req[s], "postBlog")
  /\ \E body \in BlogInputs :
       LET out == postBlog([req[s] EXCEPT !.body = body], blogs)
       IN /\ req' = [req EXCEPT ![s] = out.r]
          /\ blogs' = out.blogs
  /\ UNCHANGED <<users, policies, applications, reviews, payments, claims, nreq>>

PutBlogStep(s) ==
  /\ AtStage(req[s], "putBlog")
  /\ \E body \in PutBlogInputs :
       LET out == putBlog([req[s] EXCEPT !.body = body], blogs)
       IN /\ req' = [req EXCEPT ![s] = out.r]
          /\ blogs' = out.blogs
  /\ UNCHANGED <<users, policies, applications, reviews, payments, claims, nreq>>

DeleteBlogStep(s) ==
  /\ AtStage(req[s], "deleteBlog")
  /\ \E id \in BlogIds :
       LET out == deleteBlog([req[s] EXCEPT !.body = [id |-> id]], blogs)
       IN /\ req' = [req EXCEPT ![s] = out.r]
          /\ blogs' = out.blogs
  /\ UNCHANGED <<users, policies, applications, reviews, payments, claims, nreq>>

StartGetUserPayments(s) == Arrive(s, "GET /payments/user/:userId")
StartCreatePaymentIntent(s) == Arrive(s, "POST /create-payment-intent")

\* The identity provider fails on a request that carries a Bearer token.
VerifyFirebaseTokenFailsStep(s) ==
  /\ AtStage(req[s], "verifyFirebaseToken")
  /\ \E hdr \in Headers :
       /\ req[s].hdr \in {Unread, hdr}
       /\ hdr.scheme = "Bearer"
       /\ req' = [req EXCEPT ![s] = verifyFirebaseTokenFails([req[s] EXCEPT !.hdr = hdr])]
  /\ UNCHANGED <<db, nreq>>

\* The store fails under a role guard that has a subject id to look up.
RoleGuardFailsStep(s) ==
  /\ Active(req[s])
  /\ StageOf(req[s]) \in {"verifyAdmin", "verifyAgent", "verifyCustomer"}
  /\ req[s].decoded # ""
  /\ req' = [req EXCEPT ![s] = RoleGuardFails(req[s])]
  /\ UNCHANGED <<db, nreq>>

\* A failure of POST /customer/applications that takes back the insert when
\* the counter update throws.
SubmitApplicationFailsStep_Rollback(s) ==
  /\ AtStage(req[s], "submitApplication")
  /\ req[s].hpc \in {"", "policy", "insert", "inc"}
  /\ req' = [req EXCEPT ![s] = submitApplicationFails(req[s])]
  /\ applications' = IF req[s].hpc = "inc"
                     THEN SubSeq(applications, 1, Len(applications) - 1)
                     ELSE applications
  /\ UNCHANGED <<users, policies, reviews, payments, claims, blogs, nreq>>

\* The store fails under POST /customer/applications, at whichever of its
\* four calls comes next (the policy read is reached by the bodies that
\* carry a well-formed policy id).
SubmitApplicationFailsStep(s) ==
  /\ AtStage(req[s], "submitApplication")
  /\ req[s].hpc \in {"", "policy", "insert", "inc"}
  /\ req' = [req EXCEPT ![s] = submitApplicationFails(req[s])]
  /\ UNCHANGED <<db, nreq>>

UserPaymentsInputs == {"u1", "u3"}

GetUserPaymentsUserStep(s) ==
  /\ AtStage(req[s], "getUserPayments")
  /\ req[s].hpc = ""
  /\ \E userId \in UserPaymentsInputs :
       req' = [req EXCEPT ![s] =
                 getUserPaymentsUser([req[s] EXCEPT !.body = [userId |-> userId]], users)]
  /\ UNCHANGED <<db, nreq>>

GetUserPaymentsFindStep(s) ==
  /\ AtStage(req[s], "getUserPayments")
  /\ req[s].hpc = "payments"
  /\ req' = [req EXCEPT ![s] = getUserPaymentsFind(req[s], payments)]
  /\ UNCHANGED <<db, nreq>>

GetUserPaymentsDetailsStep(s) ==
  /\ AtStage(req[s], "getUserPayments")
  /\ req[s].hpc = "details"
  /\ req' = [req EXCEPT ![s] = getUserPaymentsDetails(req[s], policies)]
  /\ UNCHANGED <<db, nreq>>

\* The store fails under GET /payments/user/:userId, at whichever of its
\* three reads comes next.
GetUserPaymentsFailsStep(s) ==
  /\ AtStage(req[s], "getUserPayments")
  /\ req[s].hpc \in {"", "payments", "details"}
  /\ req' = [req EXCEPT ![s] = getUserPaymentsFails(req[s])]
  /\ UNCHANGED <<db, nreq>>

\* The store fails under POST /confirm-payment on a body that passed the
\* validation.
ConfirmPaymentFailsStep(s) ==
  /\ AtStage(req[s], "confirmPayment")
  /\ \E body \in PaymentInputs :
       /\ body.paymentIntentId # "" /\ ~ObjectIdThrows(body.policyId)
       /\ req' = [req EXCEPT ![s] = confirmPaymentFails([req[s] EXCEPT !.body = body])]
  /\ UNCHANGED <<db, nreq>>

IntentInputs ==
  {[amount |-> 50, policyId |-> "p1", userId |-> "u3"],
   [amount |-> 0, policyId |-> "p1", userId |-> "u3"]}

CreatePaymentIntentStep(s) ==
  /\ AtStage(req[s], "createPaymentIntent")
  /\ \E body \in IntentInputs :
       req' = [req EXCEPT ![s] = createPaymentIntent([req[s] EXCEPT !.body = body])]
  /\ UNCHANGED <<db, nreq>>

\* The payment processor fails on a body that passed the validation.
CreatePaymentIntentFailsStep(s) ==
  /\ AtStage(req[s], "createPaymentIntent")
  /\ \E body \in IntentInputs :
       /\ body.amount # 0
       /\ req' = [req EXCEPT ![s] =
                    createPaymentIntentFails([req[s] EXCEPT !.body = body])]
  /\ UNCHANGED <<db, nreq>>

StartPatchUsersProfile(s) == Arrive(s, "PATCH /users/:uid/profile")
StartPatchLastLogin(s) == Arrive(s, "PATCH /users/:uid/last-login")

\* The URL's uid (a stored user's or an unknown one) and a body without or
\* with a name; a role field rides along.
UsersProfileInputs ==
  [uid : {"u1", "u3", "u4"}, displayName : {"", "d3 "}, photoURL : {"f3"},
   role : {"admin"}]

PatchUsersProfileUpdateStep(s) ==
  /\ AtStage(req[s], "patchUsersProfile")
  /\ req[s].hpc = ""
  /\ \E body \in UsersProfileInputs :
       LET out == patchUsersProfileUpdate([req[s] EXCEPT !.body = body], users)
       IN /\ req' = [req EXCEPT ![s] = out.r]
          /\ users' = out.users
  /\ UNCHANGED <<policies, applications, reviews, payments, claims, blogs, nreq>>

PatchUsersProfileRereadStep(s) ==
  /\ AtStage(req[s], "patchUsersProfile")
  /\ req[s].hpc = "reread"
  /\ req' = [req EXCEPT ![s] = patchUsersProfileReread(req[s], users)]
  /\ UNCHANGED <<db, nreq>>

PatchLastLoginStep(s) ==
  /\ AtStage(req[s], "patchLastLogin")
  /\ \E uid \in {"u3", "u4"} :
       LET out == patchLastLogin([req[s] EXCEPT !.body = [uid |-> uid]], users)
       IN /\ req' = [req EXCEPT ![s] = out.r]
          /\ users' = out.users
  /\ UNCHANGED <<policies, applications, reviews, payments, claims, blogs, nreq>>

\* The response has been sent; the request object is dropped.
Finish(s) ==
  /\ req[s] # Idle
  /\ req[s].resp # 0
  /\ req' = [req EXCEPT ![s] = Idle]
  /\ UNCHANGED <<db, nreq>>

\* ------------------------------------------------------ initial state
User(uid, role) ==
  [uid |-> uid, email |-> "e1@x", displayName |-> "d1", photoURL |-> "",
   role |-> role, provider |-> "email", agentApplicationStatus |-> ""]

Policy(pid, count) ==
  [_id |-> ObjectId(pid), title |-> "t1", applicationsCount |-> count]

Blog(bid, author) ==
  [_id |-> ObjectId(bid), title |-> "t1", content |-> "c1", authorId |-> author]

\* The store as the server finds it: an admin, an agent and a customer,
\* two policies, one pending application of the customer and one blog of
\* the agent.
Init ==
  /\ users = <<User("u1", "admin"), User("u2", "agent"), User("u3", "customer")>>
  /\ policies = <<Policy("p1", 1), Policy("p2", 0)>>
  /\ applications =
       <<[_id |-> ObjectId("a1"), userId |-> "u3", policyId |-> ObjectId("p1"),
          status |-> "pending", assignedAgent |-> "", updatedBy |-> ""]>>
  /\ reviews = << >>
  /\ payments = << >>
  /\ claims = << >>
  /\ blogs = <<Blog("b1", "u2")>>
  /\ req = [s \in Slots |-> Idle]
  /\ nreq = 0

\* The role-guarded routes and the role changes they race with.
Next ==
  \E s \in Slots :
    \/ StartPatchUserRole(s)
    \/ StartPatchAgentApplicationStatus(s)
    \/ StartConfirmPayment(s)
    \/ VerifyFirebaseTokenStep(s)
    \/ VerifyAdminStep(s)
    \/ VerifyAgentStep(s)
    \/ VerifyCustomerStep(s)
    \/ PatchUserRoleStep(s)
    \/ PatchAgentApplicationStatusStep(s)
    \/ ConfirmPaymentStep(s)
    \/ Finish(s)

Spec == Init /\ [][Next]_vars

\* The guards on their own: a request stands at its guard with whatever the
\* upstream stage attached (a subject id, or nothing), over any users
\* collection of up to three records.
GuardedRoutes ==
  {"PATCH /admin/users/:targetUserId/role", "PATCH /agent/applications/:id/status",
   "POST /confirm-payment"}

UserStore(f) ==
  SelectSeq(<<User("u1", f["u1"]), User("u2", f["u2"]), User("u3", f["u3"])>>,
            LAMBDA d : d.role # "none")

InitGuards ==
  /\ \E f \in [{"u1", "u2", "u3"} -> validRoles \cup {"none"}] : users = UserStore(f)
  /\ policies = <<Policy("p1", 1), Policy("p2", 0)>>
  /\ applications =
       <<[_id |-> ObjectId("a1"), userId |-> "u3", policyId |-> ObjectId("p1"),
          status |-> "pending", assignedAgent |-> "", updatedBy |-> ""]>>
  /\ reviews = << >>
  /\ payments = << >>
  /\ claims = << >>
  /\ blogs = << >>
  /\ \E ep \in GuardedRoutes, d \in Uids \cup {""} :
       req = [s \in Slots |->
                IF s = 1
                THEN [NewRequest(ep) EXCEPT !.stage = 2, !.decoded = d]
                ELSE Idle]
  /\ nreq = 1

NextGuards ==
  \E s \in Slots :
    \/ VerifyAdminStep(s)
    \/ VerifyAgentStep(s)
    \/ VerifyCustomerStep(s)
    \/ PatchUserRoleStep(s)
    \/ PatchAgentApplicationStatusStep(s)
    \/ ConfirmPaymentStep(s)
    \/ Finish(s)

SpecGuards == InitGuards /\ [][NextGuards]_vars

\* Profile creation and update, with the admin's role changes they race with.
NextUsers ==
  \E s \in Slots :
    \/ StartPostUsers(s)
    \/ PostUsersLookupStep(s)
    \/ PostUsersUpdateStep(s)
    \/ PostUsersRereadStep(s)
    \/ PostUsersInsertStep(s)
    \/ StartPatchUserRole(s)
    \/ VerifyFirebaseTokenStep(s)
    \/ VerifyAdminStep(s)
    \/ PatchUserRoleStep(s)
    \/ Finish(s)

SpecUsers == Init /\ [][NextUsers]_vars

\* Review submission, behind the token check and as the earlier revision
\* registered it.
NextReviews ==
  \E s \in Slots :
    \/ StartPostReviews(s)
    \/ StartPostReviewsUnguarded(s)
    \/ VerifyFirebaseTokenStep(s)
    \/ PostReviewsLookupStep(s)
    \/ PostReviewsInsertStep(s)
    \/ Finish(s)

SpecReviews == Init /\ [][NextReviews]_vars

\* Application submission by both revisions' routes, with the admin's
\* policy deletions they race with.
NextApps ==
  \E s \in Slots :
    \/ StartSubmitApplication(s)
    \/ StartPostApplications(s)
    \/ StartDeletePolicy(s)
    \/ VerifyFirebaseTokenStep(s)
    \/ VerifyAdminStep(s)
    \/ SubmitApplicationUserStep(s)
    \/ SubmitApplicationPolicyStep(s)
    \/ SubmitApplicationInsertStep(s)
    \/ SubmitApplicationIncStep(s)
    \/ PostApplicationsLookupStep(s)
    \/ PostApplicationsInsertStep(s)
    \/ PostApplicationsIncStep(s)
    \/ DeletePolicyStep(s)
    \/ Finish(s)

SpecApps == Init /\ [][NextApps]_vars

\* Claim submission, with the admin's status changes it races with.
NextClaims ==
  \E s \in Slots :
    \/ StartPostClaims(s)
    \/ StartPatchApplicationStatus(s)
    \/ VerifyFirebaseTokenStep(s)
    \/ VerifyCustomerStep(s)
    \/ VerifyAdminStep(s)
    \/ PostClaimsLookupStep(s)
    \/ PostClaimsInsertStep(s)
    \/ PatchApplicationStatusStep(s)
    \/ Finish(s)

SpecClaims == Init /\ [][NextClaims]_vars

\* Policy creation and deletion by both pairs of routes.
NextPolicies ==
  \E s \in Slots :
    \/ StartPostPolicies(s)
    \/ StartPostAdminPolicies(s)
    \/ StartDeletePolicy(s)
    \/ StartDeleteAdminPolicy(s)
    \/ VerifyFirebaseTokenStep(s)
    \/ VerifyAdminStep(s)
    \/ PostPoliciesStep(s)
    \/ PostAdminPoliciesStep(s)
    \/ DeletePolicyStep(s)
    \/ DeleteAdminPolicyStep(s)
    \/ Finish(s)

SpecPolicies == Init /\ [][NextPolicies]_vars

\* Account deletion by admins, with the role changes that make and unmake
\* admins.
NextUserDelete ==
  \E s \in Slots :
    \/ StartDeleteUser(s)
    \/ StartPatchUserRole(s)
    \/ VerifyFirebaseTokenStep(s)
    \/ VerifyAdminStep(s)
    \/ DeleteUserStep(s)
    \/ PatchUserRoleStep(s)
    \/ Finish(s)

SpecUserDelete == Init /\ [][NextUserDelete]_vars

\* The agent-promotion workflow.
NextAgentApps ==
  \E s \in Slots :
    \/ StartApplyAgent(s)
    \/ StartPatchAgentApplication(s)
    \/ VerifyFirebaseTokenStep(s)
    \/ VerifyCustomerStep(s)
    \/ VerifyAdminStep(s)
    \/ ApplyAgentLookupStep(s)
    \/ ApplyAgentUpdateStep(s)
    \/ PatchAgentApplicationStep(s)
    \/ Finish(s)

SpecAgentApps == Init /\ [][NextAgentApps]_vars

\* The routes that write a user's role or profile: creation and update by
\* POST /users, the admin's role changes, the agent-application decisions
\* and the caller's own profile edits.
NextRoles ==
  \E s \in Slots :
    \/ StartPostUsers(s)
    \/ StartPatchUserRole(s)
    \/ StartPatchAgentApplication(s)
    \/ StartPatchProfile(s)
    \/ VerifyFirebaseTokenStep(s)
    \/ VerifyAdminStep(s)
    \/ PostUsersLookupStep(s)
    \/ PostUsersUpdateStep(s)
    \/ PostUsersRereadStep(s)
    \/ PostUsersInsertStep(s)
    \/ PatchUserRoleStep(s)
    \/ PatchAgentApplicationStep(s)
    \/ PatchProfileUpdateStep(s)
    \/ PatchProfileRereadStep(s)
    \/ Finish(s)

SpecRoles == Init /\ [][NextRoles]_vars

\* The listing on a collection of any size up to MaxPolicies, with one
\* GET /policies request and no writer.
InitPages ==
  /\ users = << >>
  /\ \E total \in 0..MaxPolicies :
       policies = [k \in 1..total |-> Policy(ToString(k), 0)]
  /\ applications = << >>
  /\ reviews = << >>
  /\ payments = << >>
  /\ claims = << >>
  /\ blogs = << >>
  /\ req = [s \in Slots |-> IF s = 1 THEN NewRequest("GET /policies") ELSE Idle]
  /\ nreq = 1

NextPages ==
  \E s \in Slots :
    \/ GetPoliciesFindStep(s)
    \/ GetPoliciesCountStep(s)
    \/ Finish(s)

SpecPages == InitPages /\ [][NextPages]_vars

\* Every route that writes an application's status: submission, the agent's
\* status update and the admin's.
NextStatus ==
  \E s \in Slots :
    \/ StartSubmitApplication(s)
    \/ StartPatchAgentApplicationStatus(s)
    \/ StartPatchApplicationStatus(s)
    \/ VerifyFirebaseTokenStep(s)
    \/ VerifyAgentStep(s)
    \/ VerifyAdminStep(s)
    \/ SubmitApplicationUserStep(s)
    \/ SubmitApplicationPolicyStep(s)
    \/ SubmitApplicationInsertStep(s)
    \/ SubmitApplicationIncStep(s)
    \/ PatchAgentApplicationStatusStep(s)
    \/ PatchApplicationStatusStep(s)
    \/ Finish(s)

SpecStatus == Init /\ [][NextStatus]_vars

\* Payment confirmation, with the deletions of the policies and users the
\* payment records name.
NextPayments ==
  \E s \in Slots :
    \/ StartConfirmPayment(s)
    \/ StartDeletePolicy(s)
    \/ StartDeleteAdminPolicy(s)
    \/ StartDeleteUser(s)
    \/ VerifyFirebaseTokenStep(s)
    \/ VerifyCustomerStep(s)
    \/ VerifyAdminStep(s)
    \/ ConfirmPaymentStep(s)
    \/ DeletePolicyStep(s)
    \/ DeleteAdminPolicyStep(s)
    \/ DeleteUserStep(s)
    \/ Finish(s)

SpecPayments == Init /\ [][NextPayments]_vars

\* The blog routes, with the admin's role changes that make and unmake
\* agents.
NextBlogs ==
  \E s \in Slots :
    \/ StartPostBlog(s)
    \/ StartPutBlog(s)
    \/ StartDeleteBlog(s)
    \/ StartPatchUserRole(s)
    \/ VerifyFirebaseTokenStep(s)
    \/ VerifyAgentStep(s)
    \/ VerifyAdminStep(s)
    \/ PostBlogStep(s)
    \/ PutBlogStep(s)
    \/ DeleteBlogStep(s)
    \/ PatchUserRoleStep(s)
    \/ Finish(s)

SpecBlogs == Init /\ [][NextBlogs]_vars

\* A store in which both policies are referred to: the customer's approved
\* application, review, claim and payment for p1, and a payment for p2.
InitCascade ==
  /\ users = <<User("u1", "admin"), User("u2", "agent"), User("u3", "customer")>>
  /\ policies = <<Policy("p1", 1), Policy("p2", 0)>>
  /\ applications =
       <<[_id |-> ObjectId("a1"), userId |-> "u3", policyId |-> ObjectId("p1"),
          status |-> "approved", assignedAgent |-> "", updatedBy |-> ""]>>
  /\ reviews = <<[userId |-> "u3", policyId |-> ObjectId("p1"), rating |-> 5]>>
  /\ payments =
       <<[paymentIntentId |-> "pi_1", userId |-> "u3", policyId |-> ObjectId("p1"),
          amount |-> 50, currency |-> "", status |-> "completed"],
         [paymentIntentId |-> "pi_2", userId |-> "u3", policyId |-> ObjectId("p2"),
          amount |-> 50, currency |-> "", status |-> "completed"]>>
  /\ claims =
       <<[userId |-> "u3", policyId |-> ObjectId("p1"),
          applicationId |-> ObjectId("a1"), reason |-> "r1", status |-> "pending"]>>
  /\ blogs = << >>
  /\ req = [s \in Slots |-> Idle]
  /\ nreq = 0

\* Policy deletion by both routes.
NextCascade ==
  \E s \in Slots :
    \/ StartDeletePolicy(s)
    \/ StartDeleteAdminPolicy(s)
    \/ VerifyFirebaseTokenStep(s)
    \/ VerifyAdminStep(s)
    \/ DeletePolicyStep(s)
    \/ DeleteAdminPolicyStep(s)
    \/ Finish(s)

SpecCascade == InitCascade /\ [][NextCascade]_vars

\* Application submission over a store and an identity provider that may
\* fail at any call.
NextFaults ==
  \E s \in Slots :
    \/ StartSubmitApplication(s)
    \/ VerifyFirebaseTokenStep(s)
    \/ VerifyFirebaseTokenFailsStep(s)
    \/ SubmitApplicationUserStep(s)
    \/ SubmitApplicationPolicyStep(s)
    \/ SubmitApplicationInsertStep(s)
    \/ SubmitApplicationIncStep(s)
    \/ SubmitApplicationFailsStep(s)
    \/ Finish(s)

SpecFaults == Init /\ [][NextFaults]_vars

\* The steps of the payments listing, of the creation of a payment intent
\* and of the payment confirmation when every call returns.
Served(s) ==
  \/ VerifyFirebaseTokenStep(s)
  \/ VerifyCustomerStep(s)
  \/ GetUserPaymentsUserStep(s)
  \/ GetUserPaymentsFindStep(s)
  \/ GetUserPaymentsDetailsStep(s)
  \/ CreatePaymentIntentStep(s)
  \/ ConfirmPaymentStep(s)

\* Their steps when the identity provider, the store or the payment
\* processor throws.
Failed(s) ==
  \/ VerifyFirebaseTokenFailsStep(s)
  \/ RoleGuardFailsStep(s)
  \/ GetUserPaymentsFailsStep(s)
  \/ CreatePaymentIntentFailsStep(s)
  \/ ConfirmPaymentFailsStep(s)

NextOutages ==
  \E s \in Slots :
    \/ StartGetUserPayments(s)
    \/ StartCreatePaymentIntent(s)
    \/ StartConfirmPayment(s)
    \/ Served(s)
    \/ Failed(s)
    \/ Finish(s)

\* The event loop runs the continuation of every call that has returned or
\* thrown: a request that has a next step takes one.
SpecOutagesLive ==
  /\ InitCascade
  /\ [][NextOutages]_vars
  /\ \A s \in Slots : WF_vars(Served(s) \/ Failed(s))

\* The admin's two routes that write a role, and the routes by which other
\* callers write user records: the agent application, the profile edit by
\* uid and the last-login stamp.
NextRoleWriters ==
  \E s \in Slots :
    \/ StartPatchUserRole(s)
    \/ StartPatchAgentApplication(s)
    \/ StartApplyAgent(s)
    \/ StartPatchUsersProfile(s)
    \/ StartPatchLastLogin(s)
    \/ VerifyFirebaseTokenStep(s)
    \/ VerifyAdminStep(s)
    \/ VerifyCustomerStep(s)
    \/ PatchUserRoleStep(s)
    \/ PatchAgentApplicationStep(s)
    \/ ApplyAgentLookupStep(s)
    \/ ApplyAgentUpdateStep(s)
    \/ PatchUsersProfileUpdateStep(s)
    \/ PatchUsersProfileRereadStep(s)
    \/ PatchLastLoginStep(s)
    \/ Finish(s)

SpecRoleWriters == Init /\ [][NextRoleWriters]_vars

\* The three routes of index.js that create a record owned by the caller:
\* application submission, payment confirmation and claim submission.
NextOwned ==
  \E s \in Slots :
    \/ StartSubmitApplication(s)
    \/ StartConfirmPayment(s)
    \/ StartPostClaims(s)
    \/ VerifyFirebaseTokenStep(s)
    \/ VerifyCustomerStep(s)
    \/ SubmitApplicationUserStep(s)
    \/ SubmitApplicationPolicyStep(s)
    \/ SubmitApplicationInsertStep(s)
    \/ SubmitApplicationIncStep(s)
    \/ ConfirmPaymentStep(s)
    \/ PostClaimsLookupStep(s)
    \/ PostClaimsInsertStep(s)
    \/ Finish(s)

SpecOwned == InitCascade /\ [][NextOwned]_vars

\* ===================================================== properties
GuardStages == {"verifyAdmin", "verifyAgent", "verifyCustomer"}

\* The role each guard requires.
RequiredRole(stage) ==
  CASE stage = "verifyAdmin" -> "admin"
    [] stage = "verifyAgent" -> "agent"
    [] stage = "verifyCustomer" -> "customer"
    [] OTHER -> ""

InSeq(x, seq) == \E i \in 1..Len(seq) : seq[i] = x
Count(x, seq) == Cardinality({i \in 1..Len(seq) : seq[i] = x})

\* The handler the first registration of a route ends in.
HandlerOf(ep) == Routes(ep)[1][Len(Routes(ep)[1])]

\* Slot s runs its guard in this step while the caller's stored role is not
\* the required one.
GuardRunsOnMismatch(s) ==
  /\ Active(req[s])
  /\ StageOf(req[s]) \in GuardStages
  /\ req'[s] # req[s]
  /\ findUser(users, req[s].decoded) # NullUser
  /\ findUser(users, req[s].decoded).role # RequiredRole(StageOf(req[s]))

DeniedByGuard(r) == r.ep # "" /\ r.resp = 403 /\ r.by \in GuardStages

\* C1: on a role-guarded route, a caller with a valid credential whose
\* stored role is not the required role is answered 403 by the guard, the
\* guard's step changes no collection, and the request so denied has run no
\* stage after the guard and written nothing.
C1_RoleGuardDenies ==
  /\ [][\A s \in Slots :
          GuardRunsOnMismatch(s) =>
            /\ req'[s].resp = 403
            /\ req'[s].by = StageOf(req[s])
            /\ UNCHANGED db]_vars
  /\ [](\A s \in Slots :
          DeniedByGuard(req[s]) =>
            /\ ~req[s].wrote
            /\ ~InSeq(HandlerOf(req[s].ep), req[s].ran)
            /\ req[s].ran[Len(req[s].ran)] = req[s].by)

\* An agent-only route has answered 403 to a registered caller whose stored
\* role is not agent.
C1_Witness ==
  \E s \in Slots :
    /\ DeniedByGuard(req[s])
    /\ req[s].by = "verifyAgent"
    /\ findUser(users, req[s].decoded).role \in {"admin", "customer"}

\* C8: POST /confirm-payment by a caller whose stored role is not customer
\* is answered 403 by the first registration's guard; no request ever runs
\* the second registration's handler, and every Payment record is one the
\* first registration's handler built for a caller the customer guard let in.
C8_ConfirmPaymentCustomerOnly ==
  /\ [][\A s \in Slots :
          (GuardRunsOnMismatch(s) /\ req[s].ep = "POST /confirm-payment") =>
            /\ req[s].reg = 1
            /\ req'[s].resp = 403
            /\ req'[s].by = "verifyCustomer"
            /\ payments' = payments]_vars
  /\ [][payments' # payments =>
          \E s \in Slots :
            /\ AtStage(req[s], "confirmPayment")
            /\ req[s].user.role = "customer"
            /\ req[s].user.uid = req[s].decoded
            /\ payments' = Append(payments, payments'[Len(payments')])
            /\ payments'[Len(payments')].userId = req[s].decoded
            /\ payments'[Len(payments')].currency = ""]_vars
  /\ [](\A s \in Slots :
          req[s].ep = "POST /confirm-payment" =>
            /\ ~InSeq("confirmPaymentTokenOnly", req[s].ran)
            /\ req[s].reg = 1)

\* POST /confirm-payment has been refused to a non-customer, and a payment
\* confirmed for a customer.
C8_Witness ==
  /\ payments # << >>
  /\ \E s \in Slots :
       /\ req[s].ep = "POST /confirm-payment"
       /\ DeniedByGuard(req[s])
       /\ req[s].by = "verifyCustomer"
       /\ req[s].ran = <<"verifyFirebaseToken", "verifyCustomer">>

\* Slot s has been through the identity verifier.
Verified(r) == r.ep # "" /\ InSeq("verifyFirebaseToken", r.ran)

RejectedByVerifier(r, code) ==
  /\ r.resp = code
  /\ r.by = "verifyFirebaseToken"
  /\ r.ran = <<"verifyFirebaseToken">>
  /\ r.decoded = ""
  /\ r.user = NullUser
  /\ ~r.wrote

\* C9: the identity verifier answers 401 when the Authorization header is
\* absent or is not a Bearer header, 403 when the provider rejects the
\* token, and in both cases nothing after it runs; only a verified token
\* attaches the subject id and lets the next stage run.
C9_IdentityVerifier ==
  \A s \in Slots :
    Verified(req[s]) =>
      /\ req[s].hdr.scheme # "Bearer" => RejectedByVerifier(req[s], 401)
      /\ (req[s].hdr.scheme = "Bearer" /\ req[s].hdr.token \notin Uids) =>
           RejectedByVerifier(req[s], 403)
      /\ (req[s].hdr.scheme = "Bearer" /\ req[s].hdr.token \in Uids) =>
           /\ req[s].decoded = req[s].hdr.token
           /\ req[s].by # "verifyFirebaseToken"
      /\ Len(req[s].ran) > 1 => req[s].decoded = req[s].hdr.token

\* One request was refused 401 for a non-Bearer header while another, with
\* a verified token, has reached its handler.
C9_Witness ==
  \E s, t \in Slots :
    /\ req[s].ep # "" /\ req[s].hdr = [scheme |-> "Basic", token |-> "u3"]
    /\ req[s].resp = 401
    /\ req[t].ep # "" /\ req[t].decoded = "u3"
    /\ InSeq("confirmPayment", req[t].ran)

\* What the guard of slot s must decide in this step, in the order 401,
\* 404, 403, pass.
GuardDecision(s) ==
  LET r == req[s]
      u == findUser(users, r.decoded)
  IN IF r.decoded = ""
     THEN req'[s].resp = 401 /\ req'[s].user = NullUser
     ELSE IF ~(\E i \in 1..Len(users) : users[i].uid = r.decoded)
          THEN req'[s].resp = 404 /\ req'[s].user = NullUser
          ELSE IF u.role # RequiredRole(StageOf(r))
               THEN req'[s].resp = 403 /\ req'[s].user = NullUser
               ELSE /\ req'[s].resp = 0
                    /\ req'[s].user = u
                    /\ u.uid = r.decoded
                    /\ StageOf(req'[s]) = HandlerOf(r.ep)

\* C10: a role guard answers 401 without a verified subject id, else 404
\* without a User record, else 403 on a role other than the required one,
\* and otherwise attaches the loaded User record and passes to the handler,
\* which runs at most once and only after the guard passed.
C10_GuardDecisionOrder ==
  /\ [][\A s \in Slots :
          (Active(req[s]) /\ StageOf(req[s]) \in GuardStages /\ req'[s] # req[s]) =>
            /\ GuardDecision(s)
            /\ req'[s].by = (IF req'[s].resp = 0 THEN "" ELSE StageOf(req[s]))
            /\ UNCHANGED db]_vars
  /\ [](\A s \in Slots :
          (req[s].ep \in GuardedRoutes) =>
            /\ Count(HandlerOf(req[s].ep), req[s].ran) <= 1
            /\ InSeq(HandlerOf(req[s].ep), req[s].ran) =>
                 /\ req[s].user.role = RequiredRole(Routes(req[s].ep)[1][2])
                 /\ req[s].user.uid = req[s].decoded
            /\ req[s].by \in GuardStages =>
                 /\ req[s].resp \in {401, 403, 404}
                 /\ ~InSeq(HandlerOf(req[s].ep), req[s].ran))

\* A guard has attached the caller's User record and the handler has run once.
C10_Witness ==
  \E s \in Slots :
    /\ req[s].ep \in GuardedRoutes
    /\ Count(HandlerOf(req[s].ep), req[s].ran) = 1
    /\ req[s].user # NullUser
    /\ req[s].user.uid = req[s].decoded

\* The three refusals of a guard, each reached.
C10_Reach401 == \E s \in Slots : req[s].ep # "" /\ req[s].by \in GuardStages /\ req[s].resp = 401
C10_Reach404 == \E s \in Slots : req[s].ep # "" /\ req[s].by \in GuardStages /\ req[s].resp = 404
C10_Reach403 == \E s \in Slots : req[s].ep # "" /\ req[s].by \in GuardStages /\ req[s].resp = 403

\* Slot s runs a step of the POST /users handler.
PostUsersRuns(s) == AtStage(req[s], "postUsers") /\ req'[s] # req[s]

\* C2: a step of POST /users leaves uid, role and provider of every stored
\* User record as they were, whatever role the record has and whatever the
\* body holds; its update writes the body's email, display name and photo
\* into the record of that subject id; its insert, made when the lookup
\* found no record, adds exactly one record, for that subject id, with the
\* role customer.
C2_PostUsersKeepsRole ==
  [][\A s \in Slots :
       PostUsersRuns(s) =>
         /\ Len(users') >= Len(users)
         /\ \A i \in 1..Len(users) :
              /\ users'[i].uid = users[i].uid
              /\ users'[i].role = users[i].role
              /\ users'[i].provider = users[i].provider
              /\ users'[i] # users[i] =>
                   /\ req[s].hpc = "update"
                   /\ users[i].uid = req[s].body.uid
                   /\ users'[i].email = req[s].body.email
                   /\ users'[i].displayName = req[s].body.displayName
                   /\ users'[i].photoURL = req[s].body.photoURL
         /\ Len(users') > Len(users) =>
              /\ req[s].hpc = "insert"
              /\ Len(users') = Len(users) + 1
              /\ users'[Len(users')].role = "customer"
              /\ users'[Len(users')].uid = req[s].body.uid
              /\ req'[s].resp = 201
         /\ (req[s].hpc = "" /\ req'[s].resp = 0) =>
              req'[s].hpc = (IF \E i \in 1..Len(users) : users[i].uid = req'[s].body.uid
                             THEN "update" ELSE "insert")]_vars

\* A re-post for subject u2, whose record is not a customer's, has been
\* answered 200: the record carries the posted email and still its role,
\* while a first post for u4 has created a customer.
C2_Witness ==
  /\ \E s \in Slots :
       /\ req[s].ep = "POST /users" /\ req[s].resp = 200 /\ req[s].loc.uid = "u2"
  /\ \E i \in 1..Len(users) :
       /\ users[i].uid = "u2" /\ users[i].email = "e2@x"
       /\ users[i].role \in {"agent", "admin"}
  /\ \E i \in 1..Len(users) : users[i].uid = "u4" /\ users[i].role = "customer"

\* C3: the reviews collection holds at most one review for each
\* (userId, policyId) pair.
C3_OneReviewPerPair ==
  \A i, j \in 1..Len(reviews) :
    (reviews[i].userId = reviews[j].userId /\ reviews[i].policyId = reviews[j].policyId)
      => i = j

SubmissionStages == {"submitApplication", "postApplications"}

\* Slot s runs a step of an application submission's handler.
SubmissionRuns(s) ==
  /\ Active(req[s])
  /\ StageOf(req[s]) \in SubmissionStages
  /\ req'[s] # req[s]

\* C4: the step of a submission that answers 201 raises the counter of the
\* submission's policy, if the policy still exists, by exactly 1 and leaves
\* every other policy as it was; its insert adds exactly one application,
\* for that policy, and touches no counter; a step that answers 400, 404 or
\* 500 belongs to a submission that has inserted nothing, and changes nothing.
C4_CounterRaisedByOne ==
  [][\A s \in Slots :
       SubmissionRuns(s) =>
         LET r == req[s]
             q == req'[s]
         IN /\ q.resp = 201 =>
                 /\ r.hpc = "inc" /\ r.wrote
                 /\ applications' = applications
                 /\ Len(policies') = Len(policies)
                 /\ \A k \in 1..Len(policies) :
                      policies'[k] =
                        IF policies[k]._id = ObjectId(r.loc.policyId)
                        THEN [policies[k] EXCEPT !.applicationsCount = @ + 1]
                        ELSE policies[k]
            /\ q.resp \in {400, 404, 500} =>
                 /\ ~r.wrote
                 /\ UNCHANGED db
            /\ (q.resp = 0 /\ q.hpc = "inc") =>
                 /\ policies' = policies
                 /\ Len(applications') = Len(applications) + 1
                 /\ SubSeq(applications', 1, Len(applications)) = applications
                 /\ applications'[Len(applications')].policyId = ObjectId(q.loc.policyId)
            /\ (q.resp = 0 /\ q.hpc # "inc") => UNCHANGED db
            /\ q.resp \in {0, 201, 400, 404, 500}]_vars

\* A submission for p2 has been answered 201: p2's counter went from 0 to 1,
\* p1's is still 1, and one application was added.
C4_Witness ==
  /\ \E s \in Slots :
       /\ req[s].ep \in {"POST /customer/applications", "POST /applications"}
       /\ req[s].resp = 201
       /\ req[s].loc.policyId = "p2"
  /\ policies = <<Policy("p1", 1), Policy("p2", 1)>>
  /\ Len(applications) = 2

ApplicationsFor(pid) ==
  Cardinality({k \in 1..Len(applications) : applications[k].policyId = ObjectId(pid)})

\* Submissions for policy pid that have inserted and not yet counted.
AwaitingInc(pid) ==
  Cardinality({s \in Slots : /\ Active(req[s])
                             /\ req[s].hpc = "inc"
                             /\ req[s].loc.policyId = pid})

\* Slots s and t hold two answered submissions for one policy that both
\* read it in the same state, so that their storage steps overlapped.
BothAnswered201(s, t) ==
  /\ s # t
  /\ \A u \in {s, t} :
       /\ req[u].ep \in {"POST /customer/applications", "POST /applications"}
       /\ req[u].resp = 201
  /\ req[s].loc = req[t].loc

\* C5: no submission's count is lost, however the storage steps interleave:
\* every policy's counter equals the number of application records for it,
\* less the submissions that have inserted and not yet counted; and once two
\* overlapping submissions for a policy have both been answered 201, its
\* counter is exactly 2 above what both read, with two records more.
C5_ConcurrentSubmissionsBothCounted ==
  /\ \A k \in 1..Len(policies) :
       policies[k].applicationsCount =
         ApplicationsFor(policies[k]._id.v) - AwaitingInc(policies[k]._id.v)
  /\ \A s, t \in Slots :
       BothAnswered201(s, t) =>
         /\ ApplicationsFor(req[s].loc.policyId)
              >= req[s].loc.policy.applicationsCount + 2
         /\ \A k \in 1..Len(policies) :
              policies[k]._id = ObjectId(req[s].loc.policyId) =>
                policies[k].applicationsCount = req[s].loc.policy.applicationsCount + 2

\* Two submissions for p1 that both read its counter as 1 have both been
\* answered 201: the counter is 3 and p1 has three application records.
C5_Witness ==
  /\ BothAnswered201(1, 2)
  /\ req[1].loc.policyId = "p1"
  /\ req[1].loc.policy.applicationsCount = 1
  /\ \E k \in 1..Len(policies) :
       policies[k]._id = ObjectId("p1") /\ policies[k].applicationsCount = 3
  /\ ApplicationsFor("p1") = 3

\* C6: a caller of POST /customer/applications whose token is valid and
\* whose stored role is agent or admin is denied: the request inserts no
\* application and is never answered 201.
C6_SubmissionReservedToCustomer ==
  \A s \in Slots :
    (/\ req[s].ep = "POST /customer/applications"
     /\ req[s].decoded # ""
     /\ findUser(users, req[s].decoded).role \in {"agent", "admin"})
      => (~req[s].wrote /\ req[s].resp # 201)

\* C7: a caller of POST /reviews whose token is valid and whose stored role
\* is not customer, or who has no User record, creates no review.
C7_ReviewsReservedToCustomer ==
  \A s \in Slots :
    (/\ req[s].ep = "POST /reviews"
     /\ req[s].decoded # ""
     /\ findUser(users, req[s].decoded).role # "customer")
      => ~req[s].wrote

\* Slot s runs a step of the POST /customer/claims handler.
PostClaimsRuns(s) == AtStage(req[s], "postClaims") /\ req'[s] # req[s]

\* The application k is an approved one of user uid for policy pid.
ApprovedFor(k, uid, pid) ==
  /\ applications[k].userId = uid
  /\ applications[k].policyId = ObjectId(pid)
  /\ applications[k].status = "approved"

\* What the lookup of POST /customer/claims answers, in the state it runs
\* in, to every body: it goes on to the insert only if the caller has an
\* approved application for the policy, and answers 404 to a body with a
\* reason and a well-formed policy id when there is none.
ClaimLookupOutcome(s) ==
  \A body \in ClaimInputs :
    LET q == postClaimsLookup([req[s] EXCEPT !.body = body], applications)
        match == \E k \in 1..Len(applications) :
                   ApprovedFor(k, req[s].decoded, body.policyId)
    IN /\ q.resp \in {0, 400, 404, 500}
       /\ q.resp = 0 => match
       /\ (body.reason # "" /\ body.policyId \in Hex /\ ~match) => q.resp = 404

C12_ApplicationReferencesPolicy ==
  [][\A s \in Slots :
       (SubmissionRuns(s) /\ Len(applications') > Len(applications)) =>
         \E k \in 1..Len(policies) :
           policies[k]._id = applications'[Len(applications')].policyId]_vars

\* C13: the review POST /reviews inserts references, at the moment of the
\* insert, a policy that is in the policies collection.
C13_ReviewReferencesPolicy ==
  [][\A s \in Slots :
       (AtStage(req[s], "postReviews") /\ Len(reviews') > Len(reviews)) =>
         \E k \in 1..Len(policies) :
           policies[k]._id = reviews'[Len(reviews')].policyId]_vars

CreateStages == {"postPolicies", "postAdminPolicies"}

\* What the create handler slot s is at answers to the body.
CreateOutcome(s, body) ==
  IF StageOf(req[s]) = "postPolicies"
  THEN postPolicies([req[s] EXCEPT !.body = body], policies)
  ELSE postAdminPolicies([req[s] EXCEPT !.body = body], policies)

\* C14: POST /policies and POST /admin/policies answer every body in which
\* a required field is absent with 400, the list of missing fields naming
\* each absent field, and leave the policies collection as it was; a step of
\* theirs that answers 400 changes nothing in the store.
C14_MissingFieldRejected ==
  /\ [](\A s \in Slots :
          (Active(req[s]) /\ StageOf(req[s]) \in CreateStages) =>
            \A body \in PolicyInputs :
              (\E field \in RequiredFields : body[field] = Absent) =>
                /\ CreateOutcome(s, body).r.resp = 400
                /\ CreateOutcome(s, body).policies = policies
                /\ \A field \in RequiredFields :
                     body[field] = Absent => InSeq(field, missing(body)))
  /\ [][\A s \in Slots :
          (Active(req[s]) /\ StageOf(req[s]) \in CreateStages /\ req'[s] # req[s]) =>
            /\ req'[s].resp \in {201, 400}
            /\ req'[s].resp = 400 => UNCHANGED db
            /\ req'[s].resp = 201 =>
                 /\ Len(policies') = Len(policies) + 1
                 /\ SubSeq(policies', 1, Len(policies)) = policies]_vars

\* One creation has been answered 201 and stored a third policy, while a
\* creation by the other route has been answered 400.
C14_Witness ==
  /\ \E s, t \in Slots :
       /\ req[s].ep = "POST /policies" /\ req[s].resp = 400 /\ req[s].by = "postPolicies"
       /\ req[t].ep = "POST /admin/policies" /\ req[t].resp = 201
  /\ Len(policies) = 3
  /\ policies[3].applicationsCount = 0

DeleteStages == {"deletePolicy", "deleteAdminPolicy"}

\* What the delete handler slot s is at answers to the id.
DeleteOutcome(s, id) ==
  IF StageOf(req[s]) = "deletePolicy"
  THEN deletePolicy([req[s] EXCEPT !.body = [id |-> id]], policies)
  ELSE deleteAdminPolicy([req[s] EXCEPT !.body = [id |-> id]], policies)

OthersKept(us, vs, uid) ==
  \A k \in 1..Len(us) : us[k].uid # uid => InSeq(us[k], vs)

\* C16: DELETE /admin/users/:userId answers the acting admin's own subject
\* id with 400 and leaves the users collection, the admin's record with
\* it, as it was; any other id that matches no record with 404, nothing
\* changed; and any other id that matches with 200, the collection one
\* record shorter, every record of another uid still in it.
C16_AdminCannotDeleteSelf ==
  /\ [](\A s \in Slots :
          AtStage(req[s], "deleteUser") =>
            \A userId \in Uids :
              LET out == deleteUser([req[s] EXCEPT !.body = [userId |-> userId]], users)
                  matching == {k \in 1..Len(users) : users[k].uid = userId}
              IN /\ userId = req[s].decoded =>
                      (out.r.resp = 400 /\ out.users = users)
                 /\ (userId # req[s].decoded /\ matching = {}) =>
                      (out.r.resp = 404 /\ out.users = users)
                 /\ (userId # req[s].decoded /\ matching # {}) =>
                      /\ out.r.resp = 200
                      /\ Len(out.users) = Len(users) - 1
                      /\ Cardinality({k \in 1..Len(out.users) : out.users[k].uid = userId})
                           = Cardinality(matching) - 1
                      /\ OthersKept(users, out.users, userId))
  /\ [][\A s \in Slots :
          (AtStage(req[s], "deleteUser") /\ req'[s] # req[s]) =>
            /\ req'[s].resp \in {200, 400, 404}
            /\ req'[s].resp \in {400, 404} => UNCHANGED db
            /\ req'[s].resp = 200 =>
                 /\ Len(users') = Len(users) - 1
                 /\ \A k \in 1..Len(users) :
                      users[k].uid = req[s].decoded => InSeq(users[k], users')
                 /\ UNCHANGED <<policies, applications, reviews, payments, claims>>]_vars

\* An admin's delete of their own id has been answered 400 and their
\* record is still stored, an admin's; another delete removed the customer.
C16_Witness ==
  /\ \E s \in Slots :
       /\ req[s].ep = "DELETE /admin/users/:userId"
       /\ req[s].resp = 400 /\ req[s].by = "deleteUser"
       /\ findUser(users, req[s].decoded).role = "admin"
  /\ findUser(users, "u3") = NullUser

\* C18: every stored user's role is customer, agent or admin.
C18_RoleInEnumeration ==
  \A k \in 1..Len(users) : users[k].role \in {"customer", "agent", "admin"}

\* Roles have been written by every means: u4 was created (a customer), u3
\* was made an agent by an approval, and a role change naming a role
\* outside the enumeration has been answered 400.
C18_Witness ==
  /\ findUser(users, "u4").role = "customer"
  /\ findUser(users, "u3").role = "agent"
  /\ findUser(users, "u3").agentApplicationStatus = "approved"
  /\ \E s \in Slots :
       /\ req[s].ep = "PATCH /admin/users/:targetUserId/role"
       /\ req[s].resp = 400 /\ req[s].by = "patchUserRole"

\* vs is us with the record at i given this application status and role,
\* and nothing else changed.
OnlyDecisionWritten(us, vs, i, status, role) ==
  /\ Len(vs) = Len(us)
  /\ \A k \in 1..Len(us) :
       vs[k] = IF k = i
               THEN [us[k] EXCEPT !.agentApplicationStatus = status, !.role = role]
               ELSE us[k]

\* C20: PATCH /admin/agent-applications/:userId answers an action other
\* than approve and reject with 400 and an unknown userId with 404, every
\* user record unchanged; approve sets the target's agentApplicationStatus
\* to approved and its role to agent; reject sets the status to rejected and
\* keeps the role; nothing else in the users collection changes.
C20_AgentApplicationDecision ==
  /\ [](\A s \in Slots :
          AtStage(req[s], "patchAgentApplication") =>
            \A userId \in Uids, action \in ActionInputs :
              LET out == patchAgentApplication(
                           [req[s] EXCEPT !.body = [userId |-> userId, action |-> action]],
                           users)
                  i == FirstIdx({k \in 1..Len(users) : users[k].uid = userId})
              IN /\ action \notin {"approve", "reject"} =>
                      (out.r.resp = 400 /\ out.users = users)
                 /\ (action \in {"approve", "reject"} /\ i = 0) =>
                      (out.r.resp = 404 /\ out.users = users)
                 /\ (action = "approve" /\ i # 0) =>
                      /\ out.r.resp = 200
                      /\ OnlyDecisionWritten(users, out.users, i, "approved", "agent")
                 /\ (action = "reject" /\ i # 0) =>
                      /\ out.r.resp = 200
                      /\ OnlyDecisionWritten(users, out.users, i, "rejected", users[i].role))
  /\ [][\A s \in Slots :
          (AtStage(req[s], "patchAgentApplication") /\ req'[s] # req[s]) =>
            /\ req'[s].resp \in {200, 400, 404}
            /\ req'[s].resp \in {400, 404} => UNCHANGED db
            /\ UNCHANGED <<policies, applications, reviews, payments, claims>>]_vars

\* The customer u3 applied and was approved: role agent, status approved;
\* the agent u2 was rejected and is still an agent.
C20_Witness ==
  /\ \E s \in Slots :
       req[s].ep = "PATCH /admin/agent-applications/:userId" /\ req[s].resp = 200
  /\ findUser(users, "u3").role = "agent"
  /\ findUser(users, "u3").agentApplicationStatus = "approved"
  /\ findUser(users, "u2").role = "agent"
  /\ findUser(users, "u2").agentApplicationStatus = "rejected"

Min(a, b) == IF a < b THEN a ELSE b
Max(a, b) == IF a > b THEN a ELSE b

\* The least number of pages of size limit that hold total items.
PagesNeeded(total, limit) ==
  CHOOSE n \in 0..total : n * limit >= total /\ \A m \in 0..total : m * limit >= total => n <= m

\* C17: the response of GET /policies to page p >= 1 and limit L >= 1 on a
\* set of T policies carries min(L, max(0, T - (p-1)*L)) policies,
\* totalPages = ceil(T/L), hasNext = (p < totalPages), hasPrev = (p > 1) and
\* currentPage = p; on T = 15, p = 2, L = 10: 5 policies, no next page, a
\* previous page, 2 pages.
C17_Pagination ==
  \A s \in Slots :
    (/\ req[s].ep = "GET /policies"
     /\ req[s].resp = 200
     /\ req[s].loc.query.page >= 1
     /\ req[s].loc.query.limit >= 1) =>
      LET T == Len(policies)
          p == req[s].loc.query.page
          L == req[s].loc.query.limit
          out == req[s].loc
      IN /\ Len(out.policies) = Min(L, Max(0, T - (p - 1) * L))
         /\ out.pagination.totalPages = PagesNeeded(T, L)
         /\ out.pagination.hasNext = (p < PagesNeeded(T, L))
         /\ out.pagination.hasPrev = (p > 1)
         /\ out.pagination.currentPage = p
         /\ out.pagination.totalPolicies = T
         /\ (T = 15 /\ p = 2 /\ L = 10) =>
              /\ Len(out.policies) = 5
              /\ out.pagination.hasNext = FALSE
              /\ out.pagination.hasPrev = TRUE
              /\ out.pagination.totalPages = 2

\* Page 2 with limit 10 of 15 policies has been answered.
C17_Witness ==
  /\ Len(policies) = 15
  /\ req[1].ep = "GET /policies"
  /\ req[1].resp = 200
  /\ req[1].loc.query = [page |-> 2, limit |-> 10]
  /\ Len(req[1].loc.policies) = 5

\* C19: every stored application's status is pending, processing, approved
\* or rejected.
C19_StatusInEnumeration ==
  \A k \in 1..Len(applications) :
    applications[k].status \in {"pending", "processing", "approved", "rejected"}

\* The records of pays are the first records of pays2, unchanged and in
\* the same order.
KeptPrefix(pays, pays2) ==
  /\ Len(pays2) >= Len(pays)
  /\ \A i \in 1..Len(pays) : pays2[i] = pays[i]

\* C21: a payment record, once inserted by a confirmation, is never updated
\* or deleted: in every step of every request the records stored before the
\* step are still stored after it, unchanged; the collection only grows.
C21_PaymentsImmutable == [][KeptPrefix(payments, payments')]_vars

\* A payment for policy p1 is stored, and afterwards p1 has been deleted and
\* a further payment has been confirmed.
C21_Witness ==
  /\ Len(payments) >= 2
  /\ payments[1].policyId = ObjectId("p1")
  /\ findPolicyIdx(policies, ObjectId("p1")) = 0

BlogById(bs, oid) == FirstIdx({k \in 1..Len(bs) : bs[k]._id = oid})

\* What PUT or DELETE /agent/blogs/:id at slot s would answer to this body.
BlogWriteOutcome(s, body) ==
  IF StageOf(req[s]) = "putBlog"
  THEN putBlog([req[s] EXCEPT !.body = body], blogs)
  ELSE deleteBlog([req[s] EXCEPT !.body = body], blogs)

\* Another agent's PUT or DELETE naming a stored blog is answered 404 and
\* writes nothing.
ForeignBlogWriteRefused ==
  \A s \in Slots :
    (Active(req[s]) /\ StageOf(req[s]) \in {"putBlog", "deleteBlog"}) =>
      \A body \in PutBlogInputs :
        LET i == BlogById(blogs, ObjectId(body.id))
            out == BlogWriteOutcome(s, body)
        IN (i # 0 /\ blogs[i].authorId # req[s].decoded) =>
             (out.r.resp = 404 /\ out.blogs = blogs)

\* A step changes or removes a stored blog only in a PUT or DELETE of its
\* author, and never changes its authorId; a blog that appears is written by
\* POST /agent/blogs with the caller's subject id as authorId.
BlogWrittenByAuthorOnly ==
  /\ \A i \in 1..Len(blogs) :
       LET b == blogs[i]
           j == BlogById(blogs', b._id)
       IN /\ (j = 0 \/ blogs'[j] # b) =>
               \E s \in Slots : /\ Active(req[s])
                                /\ StageOf(req[s]) \in {"putBlog", "deleteBlog"}
                                /\ req'[s].by = StageOf(req[s])
                                /\ req[s].decoded = b.authorId
          /\ j # 0 => blogs'[j].authorId = b.authorId
  /\ \A j \in 1..Len(blogs') :
       BlogById(blogs, blogs'[j]._id) = 0 =>
         \E s \in Slots : /\ AtStage(req[s], "postBlog")
                          /\ req'[s].resp = 201
                          /\ blogs'[j].authorId = req[s].decoded

\* C22: a blog is modified or deleted only by its author: PUT or DELETE
\* /agent/blogs/:id by an agent whose subject id differs from the blog's
\* authorId is answered 404 and leaves the blog unchanged; authorId is the
\* creating agent's subject id and no step changes it.
C22_BlogAuthorOnly == [](ForeignBlogWriteRefused) /\ [][BlogWrittenByAuthorOnly]_vars

\* Agent u3 asked to delete one of the two blogs of u2, was answered 404,
\* and both blogs are still stored.
C22_Witness ==
  /\ \E s \in Slots : /\ req[s].ep = "DELETE /agent/blogs/:id"
                      /\ req[s].by = "deleteBlog"
                      /\ req[s].resp = 404
                      /\ req[s].decoded = "u3"
  /\ Len(blogs) = 2
  /\ blogs[1] = Blog("b1", "u2")
  /\ blogs[2]._id = ObjectId("b2") /\ blogs[2].authorId = "u2"

\* Slot s is answered 200 by a policy deletion in this step.
PolicyDeleted(s) ==
  /\ Active(req[s])
  /\ StageOf(req[s]) \in DeleteStages
  /\ req'[s].resp = 200

RefersTo(coll, pid) == \E k \in 1..Len(coll) : coll[k].policyId = ObjectId(pid)

\* C23: policy deletion does not cascade: the step in which DELETE
\* /policies/:id or DELETE /admin/policies/:id succeeds removes one policy
\* and leaves every application, review, claim and payment as it was.
C23_DeleteDoesNotCascade ==
  [][\A s \in Slots :
       PolicyDeleted(s) =>
         /\ Len(policies') = Len(policies) - 1
         /\ UNCHANGED <<applications, reviews, claims, payments>>]_vars

\* Policy p1 has been deleted, and an application, a review, a claim and a
\* payment still refer to it.
C23_Witness ==
  /\ findPolicyIdx(policies, ObjectId("p1")) = 0
  /\ \E s \in Slots : req[s].ep = "DELETE /policies/:id" /\ req[s].resp = 200
  /\ RefersTo(applications, "p1") /\ RefersTo(reviews, "p1")
  /\ RefersTo(claims, "p1") /\ RefersTo(payments, "p1")

Responded(s) == req[s].ep # "" /\ req[s].resp # 0

\* A request that has been answered is not answered again: its record stays
\* as it is until it is dropped.
AnsweredOnce ==
  \A s \in Slots : Responded(s) => (req'[s] = req[s] \/ req'[s] = Idle)

\* A step in which the store, the identity provider or the payment
\* processor throws ends in the catch's answer: 403 from the token check,
\* 500 from a guard or a handler.
FailureAnswered ==
  \A s \in Slots :
    Failed(s) =>
      req'[s].resp = IF StageOf(req[s]) = "verifyFirebaseToken" THEN 403 ELSE 500

\* No request is left with a rejection nothing handles (which ends the
\* process).
NoUnhandledRejection ==
  \A s \in Slots : req[s].ep # "" => req[s].hpc # "unhandled"

\* C24: every request eventually receives exactly one response and none
\* terminates the server: a store, identity provider or payment processor
\* that fails inside a guard or a handler is caught and answered 500 (403
\* from the token check), and the requests that come later are answered too.
C24_EveryRequestAnswered ==
  /\ \A s \in Slots : Active(req[s]) ~> Responded(s)
  /\ [][AnsweredOnce /\ FailureAnswered]_vars
  /\ []NoUnhandledRejection

\* A payment confirmation whose insert failed has been answered 500 with
\* nothing stored, and a listing beside it has been answered 200 after its
\* three reads.
C24_Witness ==
  \E s, t \in Slots :
    /\ req[s].ep = "POST /confirm-payment"
    /\ req[s].by = "confirmPayment" /\ req[s].resp = 500
    /\ Len(payments) = 2
    /\ req[t].ep = "GET /payments/user/:userId"
    /\ req[t].resp = 200

CounterOf(pid) ==
  LET i == findPolicyIdx(policies, ObjectId(pid))
  IN IF i = 0 THEN 0 ELSE policies[i].applicationsCount

\* Slot s stands between its insertOne and its updateOne.
InsertedNotCounted(s) ==
  AtStage(req[s], "submitApplication") /\ req[s].hpc = "inc"

\* The application of the request standing before its counter update is
\* stored.
InsertDone ==
  \A s \in Slots :
    InsertedNotCounted(s) =>
      \E k \in 1..Len(applications) :
        /\ applications[k].userId = req[s].decoded
        /\ applications[k].policyId = ObjectId(req[s].loc.policyId)

\* The counter update that throws is answered 500 and takes nothing back:
\* the applications and the counters stay as they were.
IncFailureKeepsInsert ==
  \A s \in Slots :
    (InsertedNotCounted(s) /\ req'[s].resp = 500) =>
      (applications' = applications /\ policies' = policies)

\* A counter moves only in the step of a request that has inserted.
IncAfterInsert ==
  policies' # policies =>
    \E s \in Slots : /\ InsertedNotCounted(s)
                     /\ req[s].wrote
                     /\ req'[s].resp = 201

\* C26: the insert of an application and the increment of its policy's
\* counter are two writes with no rollback: the insert always comes first,
\* and when the increment then fails the application stays stored and
\* applicationsCount stays as it was.
C26_InsertThenIncNoRollback ==
  []InsertDone /\ [][IncFailureKeepsInsert /\ IncAfterInsert]_vars

\* Policy p1 has more applications than its counter says, with no
\* submission for it still on its way: one was answered 500 after its insert.
C26_Witness ==
  /\ ApplicationsFor("p1") > CounterOf("p1")
  /\ AwaitingInc("p1") = 0
  /\ \E s \in Slots : /\ req[s].ep = "POST /customer/applications"
                      /\ req[s].resp = 500 /\ req[s].hpc = "inc"

\* Slot s runs its guard in this step for a caller whose stored role is no
\* longer the one the server started with: an admin has changed it.
GuardRunsAfterChange(s) ==
  /\ Active(req[s])
  /\ StageOf(req[s]) \in GuardStages
  /\ req'[s] # req[s]
  /\ findUser(users, req[s].decoded) # NullUser
  /\ findUser(users, req[s].decoded).role # StartRole(req[s].decoded)

\* C25: role decisions are never cached: once an admin has changed a user's
\* role from R to R', the guard of a request of that user is decided by R':
\* a guard requiring R (or any role but R') answers 403 and a guard
\* requiring R' lets the request through to its handler.
C25_RoleReadEachRequest ==
  [][\A s \in Slots :
       GuardRunsAfterChange(s) =>
         LET now == findUser(users, req[s].decoded).role
             g == StageOf(req[s])
         IN IF RequiredRole(g) = now
            THEN /\ req'[s].resp = 0
                 /\ req'[s].stage = req[s].stage + 1
                 /\ req'[s].user.role = now
            ELSE /\ req'[s].resp = 403
                 /\ req'[s].by = g]_vars

\* u3, made an agent by the admin, has been refused by the customer guard
\* of POST /confirm-payment and let through by the agent guard.
C25_Witness ==
  /\ findUser(users, "u3").role = "agent"
  /\ \E s, t \in Slots :
       /\ req[s].ep = "POST /confirm-payment"
       /\ req[s].decoded = "u3"
       /\ req[s].resp = 403 /\ req[s].by = "verifyCustomer"
       /\ req[t].ep = "PATCH /agent/applications/:id/status"
       /\ req[t].decoded = "u3"
       /\ InSeq("patchAgentApplicationStatus", req[t].ran)

\* C27: in every reachable state the users collection holds at most one
\* User record per subject id, also when two POST /users requests for the
\* same unseen subject id are handled concurrently.
C27_OneUserPerUid ==
  \A i, j \in 1..Len(users) : users[i].uid = users[j].uid => i = j

\* Slot s writes in this step as one of the admin's two role-writing
\* handlers, reached through verifyAdmin with an admin's record attached.
AdminRoleWrite(s) ==
  /\ Active(req[s])
  /\ StageOf(req[s]) \in {"patchUserRole", "patchAgentApplication"}
  /\ InSeq("verifyAdmin", req[s].ran)
  /\ req[s].user.role = "admin"
  /\ req'[s].resp = 200

\* C28: the role of an existing user changes only in a request that passed
\* the admin guard (the role route, or an approval on the agent-application
\* route); no step of any other request, whoever sends it and whatever its
\* body carries, changes a stored role.
C28_RoleChangedByAdminOnly ==
  [][\A i \in 1..Len(users) :
       (Len(users') >= i /\ users'[i].uid = users[i].uid
          /\ users'[i].role # users[i].role) =>
         \E s \in Slots : AdminRoleWrite(s)]_vars

\* The agent u2 has edited the admin's profile by uid (with a role in the
\* body) and the admin is still an admin, while the admin has made u3 an
\* agent.
C28_Witness ==
  /\ \E s \in Slots : /\ req[s].ep = "PATCH /users/:uid/profile"
                      /\ req[s].decoded = "u2"
                      /\ req[s].resp = 200
  /\ users[1].displayName = "d3" /\ users[1].role = "admin"
  /\ users[3].role = "agent"

\* Every record this step adds to the collection carries as userId the
\* verified subject id of a request that takes the step.
OwnedByCaller(coll, coll2) ==
  \A k \in (Len(coll) + 1)..Len(coll2) :
    \E s \in Slots : /\ Active(req[s])
                     /\ req'[s] # req[s]
                     /\ req[s].decoded \in Uids
                     /\ coll2[k].userId = req[s].decoded

\* C29: every application, payment and claim created by the handlers of
\* index.js carries as userId the subject id the token check verified for
\* the creating request, whatever the body supplies.
C29_UserIdFromToken ==
  [][/\ OwnedByCaller(applications, applications')
     /\ OwnedByCaller(payments, payments')
     /\ OwnedByCaller(claims, claims')]_vars

\* The agent's application (whose body named u1 as userId), and a payment
\* and a second claim of the customer, have been created.
C29_Witness ==
  /\ \E k \in 1..Len(applications) : applications[k].userId = "u2"
  /\ Len(payments) = 3 /\ payments[3].userId = "u3"
  /\ Len(claims) = 2 /\ claims[2].userId = "u3"

\* C30: whenever an application's assignedAgent is written, the value is
\* the subject id of a user whose role is agent at that moment, on every
\* route that can write it.
C30_AssignedAgentIsAgent ==
  [][\A i \in 1..Len(applications') :
       LET a == applications'[i].assignedAgent
       IN (a # "" /\ (i > Len(applications) \/ applications[i].assignedAgent # a)) =>
            findUser(users, a).role = "agent"]_vars

====
